---- MODULE Spec2Model ----
(***************************************************************************)
(* Media-verification pipeline of the hazard-reporting backend:            *)
(*   src/Pralay/video_verification_service.py  (VideoVerificationService)  *)
(*   src/Pralay/ai_verification_service.py     (AIVerificationService)     *)
(*                                                                         *)
(* Python strings are sequences of one-character strings, so that          *)
(* lower-casing, concatenation, substring search ("kw in text") and the    *)
(* f-string cache key are computed rather than assumed.  None is the       *)
(* one-element sequence NoneVal, which is no character string.             *)
(* Real numbers are fixed point: Unit stands for 1.0.                      *)
(***************************************************************************)
EXTENDS Integers, Sequences, FiniteSets, TLC

VARIABLES verification_cache, tmp_files, now, call, ret, img_call, img_ret, img_reply,
          query, answer, threads

vars == <<verification_cache, tmp_files, now, call, ret, img_call, img_ret, img_reply,
         query, answer, threads>>

video_vars == <<verification_cache, tmp_files, now, call, ret>>

image_vars == <<img_call, img_ret, img_reply>>

\* a direct call of one of the services' side-effect-free methods
function_vars == <<query, answer>>

\* the requests that run verify_video at the same time, one per thread
thread_vars == <<threads>>

-----------------------------------------------------------------------------
(* Bounds of the model.                                                    *)

\* number of verify_video calls explored after Init
MaxCalls == 2

\* number of verify_video calls explored from a cache filled to capacity
MaxCallsFull == 4

-----------------------------------------------------------------------------
(* Numbers.  Unit = 360000 makes every quantity the code computes exact:   *)
(* decimals with four places, means over 1..4 frames, and a three-way mean *)
(* of such means.                                                          *)

Unit == 36 * 10000

\* the decimal n / 10000
D(n) == 36 * n

Min(a, b) == IF a <= b THEN a ELSE b

RECURSIVE SumSeq(_)
SumSeq(s) == IF s = <<>> THEN 0 ELSE Head(s) + SumSeq(Tail(s))

\* np.mean of a non-empty list
Mean(s) == SumSeq(s) \div Len(s)

-----------------------------------------------------------------------------
(* Strings.                                                                *)

NoneVal == <<"<None>">>

\* str(x) as an f-string formats it
Str(x) == IF x = NoneVal THEN <<"N", "o", "n", "e">> ELSE x

\* Python truthiness of an optional string
Truthy(x) == x # NoneVal /\ x # <<>>

UpperCase == <<"A", "B", "C", "D", "E", "F", "G", "H", "I", "J", "K", "L", "M",
               "N", "O", "P", "Q", "R", "S", "T", "U", "V", "W", "X", "Y", "Z">>

LowerCase == <<"a", "b", "c", "d", "e", "f", "g", "h", "i", "j", "k", "l", "m",
               "n", "o", "p", "q", "r", "s", "t", "u", "v", "w", "x", "y", "z">>

LowerChar(c) ==
    IF \E i \in 1..26 : UpperCase[i] = c
    THEN LowerCase[CHOOSE i \in 1..26 : UpperCase[i] = c]
    ELSE c

\* str.lower()
Lower(s) == [i \in 1..Len(s) |-> LowerChar(s[i])]

\* Contains that only looks at the start of the text (str.startswith)
Contains_Prefix(text, kw) ==
    Len(kw) <= Len(text) /\ SubSeq(text, 1, Len(kw)) = kw

\* the Python test "kw in text" on strings
Contains(text, kw) ==
    \E i \in 1..(Len(text) - Len(kw) + 1) :
        SubSeq(text, i, i + Len(kw) - 1) = kw

\* (filename + " " + description).lower(); raises TypeError on None
ConcatRaises(filename, description) ==
    filename = NoneVal \/ description = NoneVal

text_content(filename, description) ==
    Lower(filename \o <<" ">> \o description)

\* sum(1 for keyword in keywords if keyword in text)
Hits(keywords, text) ==
    Cardinality({i \in 1..Len(keywords) : Contains(text, keywords[i])})

\* any(keyword in text for keyword in keywords)
AnyIn(keywords, text) ==
    \E i \in 1..Len(keywords) : Contains(text, keywords[i])

-----------------------------------------------------------------------------
(* Taxonomy and keyword tables.                                            *)

tsunami == <<"t", "s", "u", "n", "a", "m", "i">>

storm_surge == <<"s", "t", "o", "r", "m", "-", "s", "u", "r", "g", "e">>

high_waves == <<"h", "i", "g", "h", "-", "w", "a", "v", "e", "s">>

flooding == <<"f", "l", "o", "o", "d", "i", "n", "g">>

debris == <<"d", "e", "b", "r", "i", "s">>

pollution == <<"p", "o", "l", "l", "u", "t", "i", "o", "n">>

erosion == <<"e", "r", "o", "s", "i", "o", "n">>

wildlife == <<"w", "i", "l", "d", "l", "i", "f", "e">>

other == <<"o", "t", "h", "e", "r">>

hazard_types ==
    <<tsunami, storm_surge, high_waves, flooding, debris, pollution, erosion, wildlife, other>>

ocean_keywords ==
    << <<"w", "a", "t", "e", "r">>,
       <<"o", "c", "e", "a", "n">>,
       <<"s", "e", "a">>,
       <<"w", "a", "v", "e">>,
       <<"b", "e", "a", "c", "h">>,
       <<"c", "o", "a", "s", "t">>,
       <<"m", "a", "r", "i", "n", "e">>,
       <<"t", "i", "d", "e">> >>

hazard_keywords ==
    << <<"s", "t", "o", "r", "m">>,
       <<"f", "l", "o", "o", "d">>,
       <<"t", "s", "u", "n", "a", "m", "i">>,
       <<"s", "u", "r", "g", "e">>,
       <<"h", "i", "g", "h">>,
       <<"r", "o", "u", "g", "h">>,
       <<"d", "a", "n", "g", "e", "r">>,
       <<"w", "a", "r", "n", "i", "n", "g">> >>

\* keyword_mapping, in the order the dict is iterated
keyword_mapping ==
    << [hazard_type |-> tsunami,
        keywords |-> << <<"t", "s", "u", "n", "a", "m", "i">>,
                       <<"t", "i", "d", "a", "l">>,
                       <<"s", "e", "i", "s", "m", "i", "c">>,
                       <<"e", "v", "a", "c", "u", "a", "t", "i", "o", "n">> >>],
       [hazard_type |-> storm_surge,
        keywords |-> << <<"s", "t", "o", "r", "m">>,
                       <<"s", "u", "r", "g", "e">>,
                       <<"h", "u", "r", "r", "i", "c", "a", "n", "e">>,
                       <<"c", "y", "c", "l", "o", "n", "e">>,
                       <<"t", "y", "p", "h", "o", "o", "n">> >>],
       [hazard_type |-> high_waves,
        keywords |-> << <<"w", "a", "v", "e">>,
                       <<"r", "o", "u", "g", "h">>,
                       <<"s", "w", "e", "l", "l">>,
                       <<"s", "u", "r", "f">> >>],
       [hazard_type |-> flooding,
        keywords |-> << <<"f", "l", "o", "o", "d">>,
                       <<"w", "a", "t", "e", "r">>,
                       <<"i", "n", "u", "n", "d", "a", "t", "i", "o", "n">>,
                       <<"f", "l", "o", "o", "d", "e", "d">> >>],
       [hazard_type |-> debris,
        keywords |-> << <<"d", "e", "b", "r", "i", "s">>,
                       <<"t", "r", "a", "s", "h">>,
                       <<"l", "i", "t", "t", "e", "r">>,
                       <<"w", "a", "s", "t", "e">> >>],
       [hazard_type |-> pollution,
        keywords |-> << <<"o", "i", "l">>,
                       <<"s", "p", "i", "l", "l">>,
                       <<"p", "o", "l", "l", "u", "t", "i", "o", "n">>,
                       <<"c", "o", "n", "t", "a", "m", "i", "n", "a", "t", "i", "o", "n">> >>],
       [hazard_type |-> erosion,
        keywords |-> << <<"e", "r", "o", "s", "i", "o", "n">>,
                       <<"c", "o", "a", "s", "t">>,
                       <<"c", "l", "i", "f", "f">>,
                       <<"b", "e", "a", "c", "h", " ", "l", "o", "s", "s">> >>],
       [hazard_type |-> wildlife,
        keywords |-> << <<"w", "i", "l", "d", "l", "i", "f", "e">>,
                       <<"f", "i", "s", "h">>,
                       <<"a", "n", "i", "m", "a", "l">>,
                       <<"m", "a", "r", "i", "n", "e", " ", "l", "i", "f", "e">> >>] >>

ai_patterns ==
    << <<"a", "i", "_", "g", "e", "n", "e", "r", "a", "t", "e", "d">>,
       <<"d", "a", "l", "l", "e">>,
       <<"m", "i", "d", "j", "o", "u", "r", "n", "e", "y">>,
       <<"s", "t", "a", "b", "l", "e", "_", "d", "i", "f", "f", "u", "s", "i", "o", "n">>,
       <<"g", "e", "n", "e", "r", "a", "t", "e", "d">> >>

-----------------------------------------------------------------------------
(* Category compatibility (both services share groups and pairs).          *)

InList(x, list) == \E i \in 1..Len(list) : list[i] = x

compatible_groups ==
    << <<flooding, storm_surge, high_waves, tsunami>>,
       <<storm_surge, tsunami, high_waves>>,
       <<pollution, debris, erosion>>,
       <<wildlife, pollution, debris>> >>

similar_pairs ==
    << <<flooding, storm_surge>>,
       <<storm_surge, high_waves>>,
       <<high_waves, tsunami>>,
       <<pollution, debris>>,
       <<erosion, debris>> >>

ocean_related ==
    <<flooding, storm_surge, high_waves, tsunami, pollution, debris, erosion>>

\* is_hazard_type_compatible in which a group only links its members to its
\* first label
video_is_hazard_type_compatible_Directed(selected_type, detected_type) ==
    IF selected_type = detected_type THEN TRUE
    ELSE \E g \in 1..Len(compatible_groups) :
             /\ InList(selected_type, compatible_groups[g])
             /\ detected_type = compatible_groups[g][1]

\* VideoVerificationService.is_hazard_type_compatible
video_is_hazard_type_compatible(selected_type, detected_type) ==
    IF selected_type = detected_type THEN TRUE
    ELSE IF \E g \in 1..Len(compatible_groups) :
                /\ InList(selected_type, compatible_groups[g])
                /\ InList(detected_type, compatible_groups[g])
         THEN TRUE
    ELSE IF \E p \in 1..Len(similar_pairs) :
                \/ (selected_type = similar_pairs[p][1] /\ detected_type = similar_pairs[p][2])
                \/ (selected_type = similar_pairs[p][2] /\ detected_type = similar_pairs[p][1])
         THEN TRUE
    ELSE FALSE

\* the image check without its fallback on the ocean-related labels
image_is_hazard_type_compatible_NoFallback(selected_type, detected_type) ==
    IF selected_type = detected_type THEN TRUE
    ELSE IF \E g \in 1..Len(compatible_groups) :
                /\ InList(selected_type, compatible_groups[g])
                /\ InList(detected_type, compatible_groups[g])
         THEN TRUE
    ELSE \E p \in 1..Len(similar_pairs) :
             \/ (selected_type = similar_pairs[p][1] /\ detected_type = similar_pairs[p][2])
             \/ (selected_type = similar_pairs[p][2] /\ detected_type = similar_pairs[p][1])

\* AIVerificationService.is_hazard_type_compatible
image_is_hazard_type_compatible(selected_type, detected_type) ==
    IF selected_type = detected_type THEN TRUE
    ELSE IF \E g \in 1..Len(compatible_groups) :
                /\ InList(selected_type, compatible_groups[g])
                /\ InList(detected_type, compatible_groups[g])
         THEN TRUE
    ELSE IF \E p \in 1..Len(similar_pairs) :
                \/ (selected_type = similar_pairs[p][1] /\ detected_type = similar_pairs[p][2])
                \/ (selected_type = similar_pairs[p][2] /\ detected_type = similar_pairs[p][1])
         THEN TRUE
    ELSE IF InList(selected_type, ocean_related) /\ InList(detected_type, ocean_related)
         THEN TRUE
    ELSE FALSE

-----------------------------------------------------------------------------
(* Hazard-type ranking shared by both classifiers.                         *)

\* np.argsort(confidences)[::-1]: numpy sorts lists this short by insertion
\* sort, ascending and stable; reversing it puts the larger confidence
\* first and, among equal confidences, the later index first.
RECURSIVE ArgsortReversedFrom(_, _)
ArgsortReversedFrom(confidences, left) ==
    IF left = {} THEN <<>>
    ELSE LET i == CHOOSE j \in left :
                     \A k \in left :
                         \/ confidences[j] > confidences[k]
                         \/ (confidences[j] = confidences[k] /\ j >= k)
         IN  <<i>> \o ArgsortReversedFrom(confidences, left \ {i})

\* sorted_indices without the reversal "[::-1]": ascending confidences
sorted_indices_Ascending(confidences) ==
    LET down == ArgsortReversedFrom(confidences, 1..Len(confidences))
    IN  [n \in 1..Len(down) |-> down[Len(down) + 1 - n]]

sorted_indices(confidences) ==
    ArgsortReversedFrom(confidences, 1..Len(confidences))

\* [ {...} for i in sorted_indices[:3] ]
top_predictions(detected_types, confidences) ==
    LET idx == sorted_indices(confidences)
    IN  [n \in 1..Min(3, Len(idx)) |->
            [hazard_type |-> detected_types[idx[n]],
             confidence  |-> confidences[idx[n]]]]

IndexOf(list, x) == CHOOSE i \in 1..Len(list) : list[i] = x

\* the loop over keyword_mapping: a match adds the type at 0.8, or boosts
\* the type's existing confidence by 0.2 up to 0.95
KeywordStep(m, text, acc) ==
    IF ~AnyIn(m.keywords, text) THEN acc
    ELSE IF ~InList(m.hazard_type, acc.detected_types)
    THEN [detected_types |-> Append(acc.detected_types, m.hazard_type),
          confidences    |-> Append(acc.confidences, D(8000))]
    ELSE LET idx == IndexOf(acc.detected_types, m.hazard_type)
         IN  [acc EXCEPT !.confidences[idx] =
                     Min(D(9500), acc.confidences[idx] + D(2000))]

RECURSIVE KeywordPass(_, _, _)
KeywordPass(k, text, acc) ==
    IF k > Len(keyword_mapping) THEN acc
    ELSE CHOOSE result \in
             { KeywordPass(k + 1, text, nxt) :
                 nxt \in {KeywordStep(keyword_mapping[k], text, acc)} } : TRUE

\* DefaultOther with a default confidence below the gate of line 531
DefaultOther_Low(acc) ==
    IF acc.detected_types = <<>>
    THEN [detected_types |-> <<other>>, confidences |-> <<D(1000)>>]
    ELSE acc

\* "if not detected_types: detected_types = ['other']; confidences = [0.3]"
DefaultOther(acc) ==
    IF acc.detected_types = <<>>
    THEN [detected_types |-> <<other>>, confidences |-> <<D(3000)>>]
    ELSE acc

-----------------------------------------------------------------------------
(* Video frames.  A frame is what the OpenCV measurements of the two       *)
(* per-frame analyzers yield on it; the analyzers compute from these.      *)

\* VideoVerificationService.analyze_frame_for_ocean_content
analyze_frame_for_ocean_content(frame) ==
    LET total_water_percentage ==
            frame.blue_percentage + frame.white_percentage + frame.grey_percentage
        water_confidence ==
            Min(Unit, total_water_percentage * 2 + frame.horizontal_edge_density * 3)
    IN  [total_water_percentage |-> total_water_percentage,
         horizontal_edge_density |-> frame.horizontal_edge_density,
         water_confidence |-> water_confidence,
         has_ocean_content |->
             (total_water_percentage > D(1000) \/ water_confidence > D(3000))]

\* VideoVerificationService.analyze_hazard_indicators
analyze_hazard_indicators(frame) ==
    LET s1 == IF frame.laplacian_var > 200 THEN D(3000) ELSE 0
        i1 == IF frame.laplacian_var > 200 THEN <<"high_activity">> ELSE <<>>
        s2 == IF frame.edge_density > D(1000) THEN D(2000) ELSE 0
        i2 == IF frame.edge_density > D(1000) THEN <<"debris_patterns">> ELSE <<>>
        s3 == IF frame.red_percentage > D(500) THEN D(2000) ELSE 0
        i3 == IF frame.red_percentage > D(500) THEN <<"emergency_red">> ELSE <<>>
        s4 == IF frame.orange_percentage > D(500) THEN D(1500) ELSE 0
        i4 == IF frame.orange_percentage > D(500) THEN <<"emergency_orange">> ELSE <<>>
        hazard_score == s1 + s2 + s3 + s4
        indicators == i1 \o i2 \o i3 \o i4
    IN  [hazard_score |-> hazard_score,
         indicators |-> indicators,
         has_hazard_indicators |-> (hazard_score > D(1000) \/ Len(indicators) >= 1)]

\* VideoLadder with the tsunami branch tested first
VideoLadder_TsunamiFirst(avg_ocean_score, avg_hazard_score) ==
    IF avg_ocean_score > D(8000) /\ avg_hazard_score > D(7000)
    THEN [detected_types |-> <<tsunami>>, confidences |-> <<D(9000)>>]
    ELSE IF avg_ocean_score > D(7000) /\ avg_hazard_score > D(6000)
    THEN [detected_types |-> <<storm_surge>>, confidences |-> <<D(8000)>>]
    ELSE IF avg_ocean_score > D(6000) /\ avg_hazard_score > D(4000)
    THEN [detected_types |-> <<high_waves>>, confidences |-> <<D(7000)>>]
    ELSE IF avg_ocean_score > D(4000) /\ avg_hazard_score > D(5000)
    THEN [detected_types |-> <<flooding>>, confidences |-> <<D(6000)>>]
    ELSE [detected_types |-> <<>>, confidences |-> <<>>]

\* the if/elif ladder of detect_hazard_type_from_video over the mean scores
VideoLadder(avg_ocean_score, avg_hazard_score) ==
    IF avg_ocean_score > D(7000) /\ avg_hazard_score > D(6000)
    THEN [detected_types |-> <<storm_surge>>, confidences |-> <<D(8000)>>]
    ELSE IF avg_ocean_score > D(6000) /\ avg_hazard_score > D(4000)
    THEN [detected_types |-> <<high_waves>>, confidences |-> <<D(7000)>>]
    ELSE IF avg_ocean_score > D(8000) /\ avg_hazard_score > D(7000)
    THEN [detected_types |-> <<tsunami>>, confidences |-> <<D(9000)>>]
    ELSE IF avg_ocean_score > D(4000) /\ avg_hazard_score > D(5000)
    THEN [detected_types |-> <<flooding>>, confidences |-> <<D(6000)>>]
    ELSE [detected_types |-> <<>>, confidences |-> <<>>]

\* VideoVerificationService.detect_hazard_type_from_video
detect_hazard_type_from_video(frames, filename, description) ==
    IF frames = <<>>
    THEN [detected_type |-> other, confidence |-> D(3000),
          top_predictions |-> <<[hazard_type |-> other, confidence |-> D(3000)]>>]
    ELSE IF ConcatRaises(filename, description)
    THEN [detected_type |-> other, confidence |-> D(3000),
          top_predictions |-> <<[hazard_type |-> other, confidence |-> D(3000)]>>,
          ocean_score |-> 0, hazard_score |-> 0]
    ELSE
      LET ocean_scores ==
              [i \in 1..Len(frames) |->
                  analyze_frame_for_ocean_content(frames[i]).water_confidence]
          hazard_scores ==
              [i \in 1..Len(frames) |->
                  analyze_hazard_indicators(frames[i]).hazard_score]
          avg_ocean_score == Mean(ocean_scores)
          avg_hazard_score == Mean(hazard_scores)
      IN  CHOOSE result \in
              { [detected_type |-> acc.detected_types[1],
                 confidence |-> acc.confidences[1],
                 top_predictions |-> top_predictions(acc.detected_types, acc.confidences),
                 ocean_score |-> avg_ocean_score,
                 hazard_score |-> avg_hazard_score] :
                  acc \in { DefaultOther(
                                KeywordPass(1, text,
                                            VideoLadder(avg_ocean_score, avg_hazard_score))) :
                              text \in {text_content(filename, description)} } } : TRUE

-----------------------------------------------------------------------------
(* Video decoding.  A video is its bytes (head = the first 1024 bytes,     *)
(* rest = what follows) and what the decoder reports on them.              *)

min_video_duration == 1

max_video_duration == 300

\* DurationBelow with the comparison turned round
DurationBelow_Swapped(video, seconds) ==
    IF video.fps > 0 THEN video.frame_count > seconds * video.fps ELSE 0 > seconds

\* duration = frame_count / fps if fps > 0 else 0, compared without dividing
DurationBelow(video, seconds) ==
    IF video.fps > 0 THEN video.frame_count < seconds * video.fps ELSE 0 < seconds

DurationAbove(video, seconds) ==
    IF video.fps > 0 THEN video.frame_count > seconds * video.fps ELSE 0 > seconds

\* frame_positions of the balanced mode, in tenths
frame_positions(video) ==
    IF ~DurationAbove(video, 30) THEN <<2, 5, 8>>
    ELSE IF ~DurationAbove(video, 120) THEN <<1, 3, 6, 9>>
    ELSE <<1, 3, 6, 9>>

\* frame_idx = int(pos * frame_count)
frame_idx(video, pos) == (pos * video.frame_count) \div 10

RECURSIVE ReadFrames(_, _, _)
ReadFrames(video, positions, k) ==
    IF k > Len(positions) THEN <<>>
    ELSE LET r == video.reads[frame_idx(video, positions[k])]
         IN  (IF r.ret THEN <<r.frame>> ELSE <<>>)
                 \o ReadFrames(video, positions, k + 1)

\* VideoVerificationService.extract_key_frames with fast_mode=True
extract_key_frames(video) ==
    IF ~video.opened THEN <<>>
    ELSE IF DurationBelow(video, min_video_duration) THEN <<>>
    ELSE IF DurationAbove(video, max_video_duration) THEN <<>>
    ELSE ReadFrames(video, frame_positions(video), 1)

-----------------------------------------------------------------------------
(* The verification cache: a Python dict, i.e. a map that iterates in      *)
(* insertion order, modelled as the sequence of its items.                 *)

cache_max_size == 50

CacheKeys(cache) == [i \in 1..Len(cache) |-> cache[i].key]

\* cache_key in self.verification_cache
CacheHas(cache, key) == \E i \in 1..Len(cache) : cache[i].key = key

\* self.verification_cache[cache_key]
CacheGet(cache, key) == cache[CHOOSE i \in 1..Len(cache) : cache[i].key = key].value

\* self.verification_cache[cache_key] = value: a new key goes last, an
\* existing key keeps its place
CachePut(cache, key, value) ==
    IF CacheHas(cache, key)
    THEN [i \in 1..Len(cache) |->
             IF cache[i].key = key THEN [key |-> key, value |-> value] ELSE cache[i]]
    ELSE Append(cache, [key |-> key, value |-> value])

\* CacheDelOldest that drops the most recently inserted item
CacheDelOldest_Newest(cache) == SubSeq(cache, 1, Len(cache) - 1)

\* oldest_key = next(iter(cache)); del cache[oldest_key]
CacheDelOldest(cache) == Tail(cache)

\* CacheStore that only evicts once the cache is over its capacity
CacheStore_OffByOne(cache, key, result) ==
    LET room == IF Len(cache) > cache_max_size THEN CacheDelOldest(cache) ELSE cache
    IN  CachePut(room, key, result)

\* "if len(cache) >= cache_max_size: <delete oldest>; cache[key] = result.copy()"
CacheStore(cache, key, result) ==
    LET room == IF Len(cache) >= cache_max_size THEN CacheDelOldest(cache) ELSE cache
    IN  CachePut(room, key, result)

\* hashlib.md5(video_data[:1024]).hexdigest(): the digest of the head only;
\* a digest is one symbol here (32 hex digits, never containing "_")
md5_hexdigest(head) ==
    CASE head = "h01" -> "82afb7877c3d715efbc4303c44523a31"
      [] head = "h02" -> "b50043f04a0012e28f7a090c0cac11fb"
      [] head = "h03" -> "700bd7af150db5ace8a6d6276c5c7423"
      [] head = "h04" -> "4c514d77b29b22e83701afb106005cd5"
      [] head = "h05" -> "1a686637884c1982cac9a85a4278625e"
      [] head = "h06" -> "c8605842c08466e94bdaf77e6b7b64c1"
      [] head = "h07" -> "d87e6aada7ab927cc65d29490c7125f1"
      [] head = "h08" -> "96166b8ffb5d30b0acb9808e4c20e86c"

\* cache_key = f"{video_hash}_{selected_hazard_type}_{filename}"
cache_key(video, selected_hazard_type, filename) ==
    <<md5_hexdigest(video.head)>> \o <<"_">> \o Str(selected_hazard_type)
        \o <<"_">> \o Str(filename)

-----------------------------------------------------------------------------
(* Keyword scoring (the fallback of the full path and the quick path).     *)

\* sum(1 for keyword in keywords if keyword in text_content) / len(keywords)
keyword_score(keywords, text) == (Hits(keywords, text) * Unit) \div Len(keywords)

\* KeywordsFound that wants both scores above 0.1
KeywordsFound_Both(ocean_score, hazard_score) ==
    ocean_score > D(1000) /\ hazard_score > D(1000)

\* "if ocean_score > 0.1 or hazard_score > 0.1"
KeywordsFound(ocean_score, hazard_score) ==
    ocean_score > D(1000) \/ hazard_score > D(1000)

\* selected_hazard_type or 'other'
SelectedOrOther(selected_hazard_type) ==
    IF Truthy(selected_hazard_type) THEN selected_hazard_type ELSE other

\* the verdict built at lines 459-478 / 647-667 and 480-485 / 669-674
KeywordFallback(selected_hazard_type, description, filename, t, quick, failed_message) ==
    LET text == text_content(filename, description)
        ocean_score == keyword_score(ocean_keywords, text)
        hazard_score == keyword_score(hazard_keywords, text)
        confidence == Min(D(7000), (ocean_score + hazard_score) \div 2)
        verified ==
            [status |-> "verified",
             message |-> <<"Video verified (keyword-based fallback)">>,
             confidence |-> confidence,
             hazard_detection |->
                 [detected_type |-> SelectedOrOther(selected_hazard_type),
                  confidence |-> confidence,
                  ocean_score |-> ocean_score,
                  hazard_score |-> hazard_score],
             frame_analysis |->
                 [total_frames_analyzed |-> 0, ocean_frames |-> 0, hazard_frames |-> 0,
                  ocean_percentage |-> ocean_score,
                  hazard_percentage |-> hazard_score],
             timestamp |-> t,
             fallback |-> TRUE]
    IN  IF KeywordsFound(ocean_score, hazard_score)
        THEN IF quick THEN ("quick_mode" :> TRUE) @@ verified ELSE verified
        ELSE [status |-> "failed",
              message |-> <<failed_message>>,
              confidence |-> 0,
              timestamp |-> t]

\* VideoVerificationService._quick_verify_video; its own try/except turns
\* every exception into an 'error' verdict
quick_verify_video(video, selected_hazard_type, description, filename, t) ==
    LET error ==
            [status |-> "error",
             message |-> <<"Quick verification failed: ", "TypeError">>,
             confidence |-> 0,
             timestamp |-> t]
    IN  IF ~video.opened
        THEN IF ConcatRaises(filename, description) THEN error
             ELSE KeywordFallback(selected_hazard_type, description, filename, t, TRUE,
                      "Invalid video file and no ocean hazard keywords found")
        ELSE IF DurationBelow(video, min_video_duration)
        THEN [status |-> "failed", message |-> <<"Video too short">>,
              confidence |-> 0, timestamp |-> t]
        ELSE IF DurationAbove(video, max_video_duration)
        THEN [status |-> "failed", message |-> <<"Video too long">>,
              confidence |-> 0, timestamp |-> t]
        ELSE IF ConcatRaises(filename, description) THEN error
        ELSE
          LET text == text_content(filename, description)
              ocean_score == keyword_score(ocean_keywords, text)
              hazard_score == keyword_score(hazard_keywords, text)
              ok == KeywordsFound(ocean_score, hazard_score)
              confidence ==
                  IF ok THEN Min(D(8000), (ocean_score + hazard_score) \div 2)
                  ELSE D(2000)
          IN  [status |-> IF ok THEN "verified" ELSE "failed",
               message |-> IF ok THEN <<"Video verified (quick mode)">>
                           ELSE <<"No ocean hazard indicators found">>,
               confidence |-> confidence,
               hazard_detection |->
                   [detected_type |-> SelectedOrOther(selected_hazard_type),
                    confidence |-> confidence,
                    ocean_score |-> ocean_score,
                    hazard_score |-> hazard_score],
               frame_analysis |->
                   [total_frames_analyzed |-> 0, ocean_frames |-> 0, hazard_frames |-> 0,
                    ocean_percentage |-> ocean_score,
                    hazard_percentage |-> hazard_score],
               timestamp |-> t,
               quick_mode |-> TRUE]

-----------------------------------------------------------------------------
(* The full analysis of verify_video, lines 487-552.                       *)

CountTrue(flags) == Cardinality({i \in 1..Len(flags) : flags[i]})

\* VideoDecision with the hazard gate tested before the ocean gate
VideoDecision_HazardFirst(ocean_percentage, hazard_percentage, selected_hazard_type, hazard_detection) ==
    IF hazard_percentage < D(500)
    THEN [status |-> "failed",
          message |-> <<"No significant hazard indicators detected - please upload videos showing actual hazard conditions">>]
    ELSE IF ocean_percentage < D(1000)
    THEN [status |-> "failed",
          message |-> <<"Insufficient ocean content detected - please upload videos showing water/ocean scenes">>]
    ELSE IF Truthy(selected_hazard_type)
            /\ ~video_is_hazard_type_compatible(selected_hazard_type,
                                                hazard_detection.detected_type)
    THEN [status |-> "failed",
          message |-> <<"Video content does not match selected hazard type. Detected: ">>
                          \o hazard_detection.detected_type]
    ELSE IF hazard_detection.confidence < D(2000)
    THEN [status |-> "failed",
          message |-> <<"Low confidence in hazard detection - please check video quality and content">>]
    ELSE [status |-> "verified", message |-> <<"Video verified successfully">>]

\* the if/elif chain that decides status and message
VideoDecision(ocean_percentage, hazard_percentage, selected_hazard_type, hazard_detection) ==
    IF ocean_percentage < D(1000)
    THEN [status |-> "failed",
          message |-> <<"Insufficient ocean content detected - please upload videos showing water/ocean scenes">>]
    ELSE IF hazard_percentage < D(500)
    THEN [status |-> "failed",
          message |-> <<"No significant hazard indicators detected - please upload videos showing actual hazard conditions">>]
    ELSE IF Truthy(selected_hazard_type)
            /\ ~video_is_hazard_type_compatible(selected_hazard_type,
                                                hazard_detection.detected_type)
    THEN [status |-> "failed",
          message |-> <<"Video content does not match selected hazard type. Detected: ">>
                          \o hazard_detection.detected_type]
    ELSE IF hazard_detection.confidence < D(2000)
    THEN [status |-> "failed",
          message |-> <<"Low confidence in hazard detection - please check video quality and content">>]
    ELSE [status |-> "verified", message |-> <<"Video verified successfully">>]

\* the overall confidence as the mean of two of the three scores
overall_confidence_TwoWay(hazard_detection) ==
    (hazard_detection.confidence + hazard_detection.ocean_score) \div 2

\* "overall_confidence = (confidence + ocean_score + hazard_score) / 3", line 536
overall_confidence(hazard_detection) ==
    (hazard_detection.confidence + hazard_detection.ocean_score
         + hazard_detection.hazard_score) \div 3

FullAnalysis(frames, selected_hazard_type, description, filename, t) ==
    LET ocean_flags ==
            [i \in 1..Len(frames) |->
                analyze_frame_for_ocean_content(frames[i]).has_ocean_content]
        hazard_flags ==
            [i \in 1..Len(frames) |->
                analyze_hazard_indicators(frames[i]).has_hazard_indicators]
        ocean_frames == CountTrue(ocean_flags)
        hazard_frames == CountTrue(hazard_flags)
        ocean_percentage == (ocean_frames * Unit) \div Len(frames)
        hazard_percentage == (hazard_frames * Unit) \div Len(frames)
        hazard_detection == detect_hazard_type_from_video(frames, filename, description)
        decision == VideoDecision(ocean_percentage, hazard_percentage,
                                  selected_hazard_type, hazard_detection)
    IN  [status |-> decision.status,
         message |-> decision.message,
         confidence |-> overall_confidence(hazard_detection),
         hazard_detection |-> hazard_detection,
         frame_analysis |->
             [total_frames_analyzed |-> Len(frames),
              ocean_frames |-> ocean_frames,
              hazard_frames |-> hazard_frames,
              ocean_percentage |-> ocean_percentage,
              hazard_percentage |-> hazard_percentage],
         timestamp |-> t,
         cached |-> FALSE]

-----------------------------------------------------------------------------
(* VideoVerificationService.verify_video as a function of the service      *)
(* state (cache, temporary files on disk, clock) and of one upload.        *)
(* upload.disk_full is the environment's answer to temp_file.write.        *)

\* ErrorVerdict when no handler catches: the exception leaves the call
ErrorVerdict_Escapes(exception, t) ==
    [status |-> "raised", exception |-> exception]

ErrorVerdict(exception, t) ==
    [status |-> "error",
     message |-> <<"Verification failed: ", exception>>,
     confidence |-> 0,
     timestamp |-> t]

\* tempfile.NamedTemporaryFile(suffix='.mp4', delete=False): a fresh name
NewTempPath(t) == t + 1

\* CacheHit without the copy: 'cached' and 'timestamp' are set on the
\* stored verdict itself
CacheHit_Aliased(cache, key, t) ==
    [cache |-> CachePut(cache, key,
                        ("cached" :> TRUE) @@ ("timestamp" :> t) @@ CacheGet(cache, key)),
     ret |-> ("cached" :> TRUE) @@ ("timestamp" :> t) @@ CacheGet(cache, key)]

\* the cache hit, lines 421-426: a shallow copy of the stored verdict with
\* 'cached' and 'timestamp' set on the copy
CacheHit(cache, key, t) ==
    [cache |-> cache,
     ret |-> ("cached" :> TRUE) @@ ("timestamp" :> t) @@ CacheGet(cache, key)]

verify_video(cache, files, t, upload) ==
    LET video == upload.video
        selected_hazard_type == upload.selected_hazard_type
        description == upload.description
        filename == upload.filename
        key == cache_key(video, selected_hazard_type, filename)
        temp_video_path == NewTempPath(t)
        created == files \cup {temp_video_path}
        \* finally: if os.path.exists(path): os.unlink(path)
        cleaned == created \ {temp_video_path}
        frames == extract_key_frames(video)
    IN  IF CacheHas(cache, key)
        THEN [cache |-> CacheHit(cache, key, t).cache, files |-> files,
              ret |-> CacheHit(cache, key, t).ret,
              hit |-> TRUE, temp_path |-> 0, sampled |-> FALSE, stored |-> FALSE]
        ELSE IF upload.disk_full
        \* write raises inside the with block, which only closes the file;
        \* the inner try is never entered
        THEN [cache |-> cache, files |-> created,
              ret |-> ErrorVerdict("OSError", t),
              hit |-> FALSE, temp_path |-> temp_video_path, sampled |-> FALSE,
              stored |-> FALSE]
        ELSE IF upload.quick_mode
        THEN LET result == quick_verify_video(video, selected_hazard_type,
                                              description, filename, t)
             IN  [cache |-> CacheStore(cache, key, result), files |-> cleaned,
                  ret |-> result,
                  hit |-> FALSE, temp_path |-> temp_video_path, sampled |-> FALSE,
                  stored |-> TRUE]
        ELSE IF frames = <<>>
        THEN [cache |-> cache, files |-> cleaned,
              ret |-> IF ConcatRaises(filename, description)
                      THEN ErrorVerdict("TypeError", t)
                      ELSE KeywordFallback(selected_hazard_type, description, filename,
                               t, FALSE,
                               "Could not extract frames from video and no ocean hazard keywords found"),
              hit |-> FALSE, temp_path |-> temp_video_path, sampled |-> TRUE,
              stored |-> FALSE]
        ELSE LET result == FullAnalysis(frames, selected_hazard_type, description,
                                        filename, t)
             IN  [cache |-> CacheStore(cache, key, result), files |-> cleaned,
                  ret |-> result,
                  hit |-> FALSE, temp_path |-> temp_video_path, sampled |-> TRUE,
                  stored |-> TRUE]

-----------------------------------------------------------------------------
(* Inputs.                                                                 *)

LandFrame ==
    [blue_percentage |-> 0, white_percentage |-> 0, grey_percentage |-> D(500),
     horizontal_edge_density |-> D(100), laplacian_var |-> 50,
     edge_density |-> D(200), red_percentage |-> 0, orange_percentage |-> 0]

SeaFrame ==
    [blue_percentage |-> D(5000), white_percentage |-> D(500), grey_percentage |-> D(500),
     horizontal_edge_density |-> D(200), laplacian_var |-> 100,
     edge_density |-> D(500), red_percentage |-> 0, orange_percentage |-> 0]

StormFrame ==
    [blue_percentage |-> D(3000), white_percentage |-> D(1000), grey_percentage |-> D(2000),
     horizontal_edge_density |-> D(800), laplacian_var |-> 400,
     edge_density |-> D(1500), red_percentage |-> D(600), orange_percentage |-> 0]

WreckFrame ==
    [blue_percentage |-> 0, white_percentage |-> D(100), grey_percentage |-> D(100),
     horizontal_edge_density |-> 0, laplacian_var |-> 300,
     edge_density |-> D(2000), red_percentage |-> 0, orange_percentage |-> D(1000)]

NoRead == [ret |-> FALSE]

Read(frame) == [ret |-> TRUE, frame |-> frame]

\* bytes that are no video container
NotAVideo ==
    [head |-> "h01", rest |-> "r1", opened |-> FALSE, frame_count |-> 0, fps |-> 0,
     reads |-> <<>>]

\* 0.5 seconds
ShortClip ==
    [head |-> "h02", rest |-> "r1", opened |-> TRUE, frame_count |-> 15, fps |-> 30,
     reads |-> (3 :> Read(StormFrame)) @@ (7 :> Read(StormFrame)) @@ (12 :> Read(StormFrame))]

\* 301 seconds
LongFilm ==
    [head |-> "h03", rest |-> "r1", opened |-> TRUE, frame_count |-> 301, fps |-> 1,
     reads |-> (30 :> Read(StormFrame)) @@ (90 :> Read(StormFrame))
                   @@ (180 :> Read(StormFrame)) @@ (270 :> Read(StormFrame))]

\* opens, 10 seconds, but no frame can be read
Unreadable ==
    [head |-> "h04", rest |-> "r1", opened |-> TRUE, frame_count |-> 100, fps |-> 10,
     reads |-> (20 :> NoRead) @@ (50 :> NoRead) @@ (80 :> NoRead)]

LandVideo ==
    [head |-> "h05", rest |-> "r1", opened |-> TRUE, frame_count |-> 100, fps |-> 10,
     reads |-> (20 :> Read(LandFrame)) @@ (50 :> Read(LandFrame)) @@ (80 :> Read(LandFrame))]

\* the same first 1024 bytes as LandVideo, other bytes after them
LandHeadStormVideo ==
    [head |-> "h05", rest |-> "r2", opened |-> TRUE, frame_count |-> 100, fps |-> 10,
     reads |-> (20 :> Read(StormFrame)) @@ (50 :> Read(StormFrame)) @@ (80 :> Read(StormFrame))]

SeaVideo ==
    [head |-> "h06", rest |-> "r1", opened |-> TRUE, frame_count |-> 100, fps |-> 10,
     reads |-> (20 :> Read(SeaFrame)) @@ (50 :> Read(SeaFrame)) @@ (80 :> Read(SeaFrame))]

StormVideo ==
    [head |-> "h07", rest |-> "r1", opened |-> TRUE, frame_count |-> 100, fps |-> 10,
     reads |-> (20 :> Read(StormFrame)) @@ (50 :> Read(StormFrame)) @@ (80 :> Read(StormFrame))]

\* 60 seconds: four positions, one of which cannot be read
MixVideo ==
    [head |-> "h08", rest |-> "r1", opened |-> TRUE, frame_count |-> 600, fps |-> 10,
     reads |-> (60 :> Read(SeaFrame)) @@ (180 :> NoRead)
                   @@ (360 :> Read(StormFrame)) @@ (540 :> Read(WreckFrame))]

clip_mp4 == <<"c", "l", "i", "p", ".", "m", "p", "4">>

storm_flood_warning_mp4 ==
    <<"s", "t", "o", "r", "m", "_", "f", "l", "o", "o", "d", "_",
      "w", "a", "r", "n", "i", "n", "g", ".", "m", "p", "4">>

Sea_WAVE_MP4 == <<"S", "e", "a", "_", "W", "A", "V", "E", ".", "M", "P", "4">>

Upload(video, selected, description, filename, quick, full) ==
    [video |-> video, selected_hazard_type |-> selected, description |-> description,
     filename |-> filename, quick_mode |-> quick, disk_full |-> full]

\* uploads that reach the frame analysis, with and without a category hint
AnalysedUploads ==
    { Upload(v, s, <<>>, clip_mp4, FALSE, FALSE) :
        v \in {LandVideo, LandHeadStormVideo, SeaVideo, StormVideo, MixVideo},
        s \in {NoneVal, flooding, wildlife} }

\* uploads whose video yields no frame
UndecodableUploads ==
    { Upload(v, NoneVal, t[1], t[2], q, FALSE) :
        v \in {NotAVideo, ShortClip, LongFilm, Unreadable},
        t \in {<<<<>>, clip_mp4>>, <<<<>>, storm_flood_warning_mp4>>, <<NoneVal, clip_mp4>>},
        q \in BOOLEAN }

\* decodable videos through the quick path, and an empty category hint
QuickUploads ==
    { Upload(v, NoneVal, <<>>, f, TRUE, FALSE) :
        v \in {LandVideo, StormVideo}, f \in {clip_mp4, Sea_WAVE_MP4} }
    \cup { Upload(StormVideo, <<>>, <<>>, clip_mp4, q, FALSE) : q \in BOOLEAN }

\* uploads during which writing the temporary file fails
DiskFullUploads ==
    { Upload(NotAVideo, NoneVal, <<>>, clip_mp4, FALSE, TRUE),
      Upload(StormVideo, NoneVal, <<>>, clip_mp4, TRUE, TRUE) }

Uploads == AnalysedUploads \cup UndecodableUploads \cup QuickUploads \cup DiskFullUploads

-----------------------------------------------------------------------------
(* The service as a state machine: requests arrive one after the other.    *)

NoCall == [n |-> 0]

NoVerdict == [status |-> "none"]

\* the number of requests in flight at the same time
MaxThreads == 2

Threads == 1..MaxThreads

Idle == [pc |-> "idle"]

NoThreads == [t \in Threads |-> Idle]

Init ==
    /\ verification_cache = <<>>
    /\ tmp_files = {}
    /\ now = 0
    /\ call = NoCall
    /\ ret = NoVerdict
    /\ img_call = NoCall
    /\ img_ret = NoVerdict
    /\ img_reply = NoVerdict
    /\ query = NoCall
    /\ answer = NoVerdict
    /\ threads = NoThreads

VerifyVideo(upload) ==
    \E r \in {verify_video(verification_cache, tmp_files, now, upload)} :
        /\ verification_cache' = r.cache
        /\ tmp_files' = r.files
        /\ now' = now + 1
        /\ call' = [n |-> call.n + 1,
                    upload |-> upload,
                    cache_key |-> cache_key(upload.video, upload.selected_hazard_type,
                                            upload.filename),
                    hit |-> r.hit,
                    temp_path |-> r.temp_path,
                    sampled |-> r.sampled,
                    stored |-> r.stored]
        /\ ret' = r.ret
        /\ UNCHANGED <<image_vars, function_vars, thread_vars>>

Next ==
    \E upload \in Uploads :
        /\ call.n < MaxCalls
        /\ VerifyVideo(upload)

Spec == Init /\ [][Next]_vars

-----------------------------------------------------------------------------
(* The same service once its cache is at capacity: the state after         *)
(* cache_max_size - 1 or cache_max_size distinct uploads have been         *)
(* verified, f01.mp4 first.  Odd ones went through the quick path, even    *)
(* ones through the full analysis.                                         *)

Digits == <<"0", "1", "2", "3", "4", "5", "6", "7", "8", "9">>

FillerName(i) ==
    <<"f", Digits[(i \div 10) + 1], Digits[(i % 10) + 1], ".", "m", "p", "4">>

FillerUpload(i) ==
    Upload(SeaVideo, NoneVal, <<>>, FillerName(i), i % 2 = 1, FALSE)

\* the service state after the first n filler uploads
RECURSIVE Filled(_)
Filled(n) ==
    IF n = 0 THEN [cache |-> <<>>, files |-> {}]
    ELSE CHOOSE after \in { verify_video(before.cache, before.files, n - 1,
                                           FillerUpload(n)) :
                                before \in {Filled(n - 1)} } : TRUE

FullUploads ==
    { FillerUpload(1),
      FillerUpload(2),
      Upload(StormVideo, NoneVal, <<>>, clip_mp4, FALSE, FALSE),
      Upload(NotAVideo, NoneVal, <<>>, storm_flood_warning_mp4, TRUE, FALSE),
      Upload(NotAVideo, NoneVal, <<>>, storm_flood_warning_mp4, FALSE, FALSE),
      Upload(LandVideo, wildlife, <<>>, clip_mp4, FALSE, FALSE),
      Upload(LandVideo, wildlife, <<>>, clip_mp4, FALSE, TRUE) }

InitFull ==
    \E n \in {cache_max_size - 1, cache_max_size} :
      \E filled \in {Filled(n)} :
        /\ verification_cache = filled.cache
        /\ tmp_files = filled.files
        /\ now = n
        /\ call = NoCall
        /\ ret = NoVerdict
        /\ img_call = NoCall
        /\ img_ret = NoVerdict
        /\ img_reply = NoVerdict
        /\ query = NoCall
        /\ answer = NoVerdict
        /\ threads = NoThreads

NextFull ==
    \E upload \in FullUploads :
        /\ call.n < MaxCallsFull
        /\ VerifyVideo(upload)

SpecFull == InitFull /\ [][NextFull]_vars

-----------------------------------------------------------------------------
(* Floating point.  The scores the image service adds up are Python floats *)
(* (IEEE doubles), and 0.2 + 0.1 is not the double 0.3.  A float is        *)
(* <<m, u>>: the double u units in the last place away from the double     *)
(* written m / 10000.  FloatAddInexact lists, for every sum the scoring    *)
(* code can form, the additions whose IEEE result is not the double        *)
(* written as the decimal sum; any other sum of two decimals is exact.     *)

Fl(m) == <<m, 0>>

FloatAddInexact ==
    {
      <<<<1000, 0>>, <<2000, 0>>, <<3000, 1>>>>, <<<<1000, 0>>, <<3500, 0>>, <<4500, -1>>>>,
      <<<<1500, 0>>, <<3000, 0>>, <<4500, -1>>>>, <<<<2000, 0>>, <<1000, 0>>, <<3000, 1>>>>,
      <<<<2000, 0>>, <<4000, 0>>, <<6000, 1>>>>, <<<<3000, 0>>, <<1500, 0>>, <<4500, -1>>>>,
      <<<<3000, 0>>, <<3500, 0>>, <<6500, -1>>>>, <<<<3000, 1>>, <<1000, 0>>, <<4000, 0>>>>,
      <<<<3000, 1>>, <<1500, 0>>, <<4500, 1>>>>, <<<<3000, 1>>, <<2000, 0>>, <<5000, 0>>>>,
      <<<<3000, 1>>, <<3000, 0>>, <<6000, 1>>>>, <<<<3000, 1>>, <<3500, 0>>, <<6500, 0>>>>,
      <<<<3500, 0>>, <<1000, 0>>, <<4500, -1>>>>, <<<<3500, 0>>, <<3000, 0>>, <<6500, -1>>>>,
      <<<<4000, 0>>, <<2000, 0>>, <<6000, 1>>>>, <<<<4500, -1>>, <<1000, 0>>, <<5500, -1>>>>,
      <<<<4500, -1>>, <<1500, 0>>, <<6000, 0>>>>, <<<<4500, -1>>, <<2000, 0>>, <<6500, -1>>>>,
      <<<<4500, -1>>, <<3500, 0>>, <<8000, -1>>>>, <<<<4500, 1>>, <<1000, 0>>, <<5500, 0>>>>,
      <<<<4500, 1>>, <<2000, 0>>, <<6500, 1>>>>, <<<<5000, 0>>, <<3000, 1>>, <<8000, 0>>>>,
      <<<<5000, 0>>, <<4500, -1>>, <<9500, 0>>>>, <<<<5000, 0>>, <<6000, 1>>, <<11000, 0>>>>,
      <<<<5000, 0>>, <<6500, -1>>, <<11500, 0>>>>, <<<<5500, 0>>, <<1500, 0>>, <<7000, 1>>>>,
      <<<<6000, 1>>, <<1000, 0>>, <<7000, 1>>>>, <<<<6000, 1>>, <<1500, 0>>, <<7500, 1>>>>,
      <<<<6000, 1>>, <<2000, 0>>, <<8000, 0>>>>, <<<<6000, 1>>, <<3500, 0>>, <<9500, 1>>>>,
      <<<<6500, -1>>, <<1000, 0>>, <<7500, -1>>>>, <<<<6500, -1>>, <<2000, 0>>, <<8500, -1>>>>,
      <<<<6500, 0>>, <<2000, 0>>, <<8500, 1>>>>, <<<<7000, 0>>, <<1000, 0>>, <<8000, -1>>>>,
      <<<<7000, 0>>, <<2000, 0>>, <<9000, -1>>>>, <<<<7000, 0>>, <<3500, 0>>, <<10500, -1>>>>,
      <<<<7000, 1>>, <<1000, 0>>, <<8000, 0>>>>, <<<<7000, 1>>, <<2000, 0>>, <<9000, 1>>>>,
      <<<<7500, 1>>, <<1000, 0>>, <<8500, 1>>>>, <<<<7500, 1>>, <<2000, 0>>, <<9500, 2>>>>,
      <<<<8000, -1>>, <<1000, 0>>, <<9000, -1>>>>, <<<<8000, -1>>, <<1500, 0>>, <<9500, 0>>>>,
      <<<<8000, -1>>, <<2000, 0>>, <<10000, 0>>>>, <<<<8000, -1>>, <<3500, 0>>, <<11500, 0>>>>,
      <<<<8000, 0>>, <<1500, 0>>, <<9500, 1>>>>, <<<<8500, 1>>, <<1000, 0>>, <<9500, 1>>>>,
      <<<<8500, 1>>, <<2000, 0>>, <<10500, 0>>>>, <<<<9000, -1>>, <<1000, 0>>, <<10000, -1>>>>,
      <<<<9000, -1>>, <<2000, 0>>, <<11000, -1>>>>, <<<<9500, 0>>, <<1500, 0>>, <<11000, -1>>>>,
      <<<<9500, 0>>, <<3500, 0>>, <<13000, -1>>>>, <<<<9500, 1>>, <<1000, 0>>, <<10500, 0>>>>,
      <<<<9500, 1>>, <<2000, 0>>, <<11500, 1>>>>, <<<<10500, -1>>, <<1000, 0>>, <<11500, 0>>>>,
      <<<<10500, -1>>, <<2000, 0>>, <<12500, -1>>>>, <<<<10500, 0>>, <<1000, 0>>, <<11500, 1>>>>,
      <<<<11000, -1>>, <<1000, 0>>, <<12000, 0>>>>, <<<<11000, -1>>, <<2000, 0>>, <<13000, -1>>>>,
      <<<<11000, 0>>, <<1000, 0>>, <<12000, 1>>>>, <<<<11000, 0>>, <<3500, 0>>, <<14500, 1>>>>,
      <<<<11500, 0>>, <<2000, 0>>, <<13500, -1>>>>, <<<<13000, -1>>, <<1000, 0>>, <<14000, 0>>>>,
      <<<<13000, -1>>, <<2000, 0>>, <<15000, -1>>>>, <<<<13000, 0>>, <<1000, 0>>, <<14000, 1>>>>,
      <<<<13500, 0>>, <<1000, 0>>, <<14500, 1>>>>, <<<<14500, 1>>, <<1000, 0>>, <<15500, 1>>>>,
      <<<<14500, 1>>, <<2000, 0>>, <<16500, 1>>>>
    }

\* a + b on doubles
FloatAdd(a, b) ==
    IF b = Fl(0) THEN a
    ELSE IF a = Fl(0) THEN b
    ELSE IF \E e \in FloatAddInexact : e[1] = a /\ e[2] = b
    THEN (CHOOSE e \in FloatAddInexact : e[1] = a /\ e[2] = b)[3]
    ELSE <<a[1] + b[1], 0>>

\* a > b on doubles
FloatGt(a, b) == a[1] > b[1] \/ (a[1] = b[1] /\ a[2] > b[2])

FloatMin(a, b) == IF FloatGt(a, b) THEN b ELSE a

\* a double that is written exactly by its decimal, in fixed point
FloatToFixed(a) == D(a[1])

\* score += weight when the rule fires
AddIf(score, fires, weight) == IF fires THEN FloatAdd(score, Fl(weight)) ELSE score

TagIf(fires, tag) == IF fires THEN <<tag>> ELSE <<>>

-----------------------------------------------------------------------------
(* The image service.  An image is what OpenCV measures on the decoded,    *)
(* resized 224x224 frame; image.raises names the analyzers in which an     *)
(* OpenCV call raises on it.                                               *)

\* AIVerificationService.analyze_water_content
analyze_water_content(image) ==
    IF "water" \in image.raises
    THEN [water_percentage |-> 0, water_confidence |-> 0, texture_variance |-> 0,
          has_significant_water |-> FALSE]
    ELSE
      LET water_edges10 == 10 * image.horizontal_edges + 8 * image.vertical_edges
                               + 6 * image.diagonal_edges
          \* min(water_edge_ratio * 1.5, 1.0), water_edge_ratio being
          \* water_edges / total_edges if total_edges > 0 else 0
          edge_term ==
              IF image.total_edges = 0 THEN 0
              ELSE IF 15 * water_edges10 >= 100 * image.total_edges THEN Unit
              ELSE ((15 * water_edges10 * 36) \div image.total_edges) * 100
          \* min(texture_variance / 1000, 1.0)
          texture_term ==
              IF image.texture_variance >= 1000 THEN Unit
              ELSE image.texture_variance * (Unit \div 1000)
          raw_confidence ==
              (image.water_percentage * 40 + edge_term * 35 + texture_term * 25) \div 100
          water_confidence ==
              IF /\ image.water_percentage > D(1000)
                 /\ image.has_water_contours
                 /\ image.coherent_water_ratio < D(500)
              THEN (raw_confidence * 3) \div 10
              ELSE raw_confidence
      IN  [water_percentage |-> image.water_percentage,
           water_confidence |-> water_confidence,
           texture_variance |-> image.texture_variance,
           has_significant_water |->
               (image.water_percentage > D(4000) /\ water_confidence > D(7500))]

\* AIVerificationService.compute_image_metrics; <<>> stands for the empty
\* dict returned when the computation raises
compute_image_metrics(image) ==
    IF "metrics" \in image.raises THEN <<>>
    ELSE LET water_metrics == analyze_water_content(image)
         IN  [laplacian_variance |-> image.laplacian_variance,
              mean_saturation |-> image.mean_saturation,
              saturation_std |-> image.saturation_std,
              width |-> 224,
              height |-> 224,
              water_percentage |-> water_metrics.water_percentage,
              water_confidence |-> water_metrics.water_confidence,
              texture_variance |-> water_metrics.texture_variance,
              has_significant_water |-> water_metrics.has_significant_water]

\* AIVerificationService.has_water_content
has_water_content(image) == analyze_water_content(image).has_significant_water

\* AIVerificationService.detect_emergency_color_patterns
detect_emergency_color_patterns(image) ==
    IF "colors" \in image.raises THEN [score |-> Fl(0), indicators |-> <<>>]
    ELSE LET orange == image.orange_pixels > 1000
             red == image.red_pixels > 1000
             yellow == image.yellow_pixels > 1000
         IN  [score |-> AddIf(AddIf(AddIf(Fl(0), orange, 1500), red, 1500), yellow, 1000),
              indicators |-> TagIf(orange, "orange_emergency_equipment")
                                 \o TagIf(red, "red_danger_signs")
                                 \o TagIf(yellow, "yellow_warning_signs")]

\* AIVerificationService.detect_structural_damage
detect_structural_damage(image) ==
    IF "structure" \in image.raises THEN [score |-> Fl(0), indicators |-> <<>>]
    ELSE LET dense == image.edge_density > D(1000)
             irregular == image.irregular_shapes > 5
         IN  [score |-> AddIf(AddIf(Fl(0), dense, 2000), irregular, 1500),
              indicators |-> TagIf(dense, "high_edge_density_damage")
                                 \o TagIf(irregular, "irregular_debris_shapes")]

\* AIVerificationService.detect_emergency_equipment
detect_emergency_equipment(image) ==
    IF "equipment" \in image.raises THEN [score |-> Fl(0), indicators |-> <<>>]
    ELSE LET vehicles == image.vehicle_like_objects > 0
             bright == image.bright_pixels > 2000
         IN  [score |-> AddIf(AddIf(Fl(0), vehicles, 1000), bright, 1000),
              indicators |-> TagIf(vehicles, "vehicle_like_objects")
                                 \o TagIf(bright, "reflective_equipment")]

\* "indicators_found.extend(sub['indicators'])" under "if sub['score'] > 0.1"
ExtendIf(sub) == IF FloatGt(sub.score, Fl(1000)) THEN sub.indicators ELSE <<>>

\* the score and indicator list of has_hazard_indicators, lines 302-337
hazard_indicator_analysis(image) ==
    LET metrics == compute_image_metrics(image)
        chaos == metrics.laplacian_variance > 200
        severe == metrics.laplacian_variance > 500
        debris_patterns == metrics.texture_variance > 2000
        emergency_indicators == detect_emergency_color_patterns(image)
        structural_damage == detect_structural_damage(image)
        emergency_equipment == detect_emergency_equipment(image)
        own == AddIf(AddIf(AddIf(Fl(0), chaos, 3000), severe, 2000), debris_patterns, 2000)
    IN  [hazard_score |->
             FloatAdd(FloatAdd(FloatAdd(own, emergency_indicators.score),
                               structural_damage.score),
                      emergency_equipment.score),
         indicators_found |->
             TagIf(chaos, "high_chaos_damage") \o TagIf(severe, "severe_destruction")
                 \o TagIf(debris_patterns, "debris_patterns")
                 \o ExtendIf(emergency_indicators)
                 \o ExtendIf(structural_damage)
                 \o ExtendIf(emergency_equipment)]

\* AIVerificationService.has_hazard_indicators
has_hazard_indicators(image) ==
    IF compute_image_metrics(image) = <<>> THEN FALSE
    ELSE LET a == hazard_indicator_analysis(image)
         IN  FloatGt(a.hazard_score, Fl(6000)) /\ Len(a.indicators_found) >= 3

\* AIVerificationService.detect_ai_generated_image
detect_ai_generated_image(image, filename) ==
    LET metrics == compute_image_metrics(image)
    IN  IF metrics = <<>>
        THEN [is_real_image |-> TRUE, confidence |-> D(5000),
              detection_method |-> "Content Analysis (fallback)",
              indicators |-> <<"Metrics unavailable">>]
        ELSE
          LET smooth == metrics.laplacian_variance < 30
              sharp == ~smooth /\ metrics.laplacian_variance > 2000
              flat == metrics.saturation_std < D(500)
              square == metrics.width = metrics.height /\ metrics.width % 64 = 0
              named == Truthy(filename) /\ AnyIn(ai_patterns, Lower(filename))
              ai_score ==
                  AddIf(AddIf(AddIf(AddIf(AddIf(Fl(0), smooth, 2000), sharp, 1500),
                                    flat, 1000), square, 1000), named, 3000)
              is_ai_generated == FloatGt(ai_score, Fl(3000))
              confidence == FloatMin(Fl(9000), FloatAdd(Fl(5000), ai_score))
          IN  [is_real_image |-> ~is_ai_generated,
               confidence |-> FloatToFixed(confidence),
               detection_method |-> "Enhanced Content Analysis",
               indicators |->
                   TagIf(smooth, "Very low edge variance (over-smooth)")
                       \o TagIf(sharp, "Very high edge variance (over-sharpened)")
                       \o TagIf(flat, "Low saturation diversity")
                       \o TagIf(square, "Perfect square with power-of-64 dimensions")
                       \o TagIf(named, "AI-related filename patterns"),
               ai_score |-> ai_score]

\* one rule of the content ladder of detect_hazard_type
LadderStep(acc, fires, hazard_type, confidence) ==
    IF fires
    THEN [detected_types |-> Append(acc.detected_types, hazard_type),
          confidences |-> Append(acc.confidences, confidence)]
    ELSE acc

\* the five independent ifs of detect_hazard_type, lines 572-595
ImageLadder(metrics) ==
    LET laplacian_var == metrics.laplacian_variance
        mean_sat == metrics.mean_saturation
        sat_std == metrics.saturation_std
        a0 == [detected_types |-> <<>>, confidences |-> <<>>]
        a1 == LadderStep(a0, laplacian_var > 120 /\ sat_std > D(1200), storm_surge, D(7000))
        a2 == LadderStep(a1, laplacian_var > 100, high_waves, D(6000))
        a3 == LadderStep(a2, laplacian_var > 80 /\ mean_sat < D(5000), flooding, D(5000))
        a4 == LadderStep(a3, laplacian_var > 180, tsunami, D(8000))
    IN  LadderStep(a4, laplacian_var > 160, debris, D(7000))

\* AIVerificationService.detect_hazard_type
detect_hazard_type(image, filename, description) ==
    LET metrics == compute_image_metrics(image)
        fallback ==
            [detected_type |-> other, confidence |-> D(3000),
             top_predictions |-> <<[hazard_type |-> other, confidence |-> D(3000)]>>]
    IN  IF metrics = <<>> THEN fallback
        ELSE IF ConcatRaises(filename, description) THEN fallback
        ELSE CHOOSE result \in
                 { [detected_type |-> acc.detected_types[1],
                    confidence |-> acc.confidences[1],
                    top_predictions |-> top_predictions(acc.detected_types,
                                                        acc.confidences)] :
                     acc \in { DefaultOther(KeywordPass(1, text, ImageLadder(metrics))) :
                                 text \in {text_content(filename, description)} } } : TRUE

\* ImageDecision with the hazard-indicator gate tested before the water gate
ImageDecision_HazardBeforeWater(image, selected_hazard_type, ai_detection, hazard_detection) ==
    IF ~ai_detection.is_real_image
    THEN [status |-> "failed",
          message |-> <<"AI-generated image detected - only real photos are accepted">>]
    ELSE IF ~has_hazard_indicators(image)
    THEN [status |-> "failed",
          message |-> <<"No hazard indicators detected - please upload images showing actual flood damage, destruction, or emergency situations">>]
    ELSE IF ~has_water_content(image)
    THEN [status |-> "failed",
          message |-> <<"No significant water content detected - please upload images with water/ocean scenes">>]
    ELSE IF Truthy(selected_hazard_type)
            /\ ~image_is_hazard_type_compatible(selected_hazard_type,
                                                hazard_detection.detected_type)
    THEN [status |-> "failed",
          message |-> <<"Image content does not match selected hazard type. Detected: ">>
                          \o hazard_detection.detected_type]
    ELSE IF hazard_detection.confidence < D(4000)
    THEN [status |-> "failed",
          message |-> <<"Low confidence in hazard detection - please check image quality">>]
    ELSE [status |-> "verified", message |-> <<"Image verified successfully">>]

\* the if/elif chain of verify_image, lines 681-708
ImageDecision(image, selected_hazard_type, ai_detection, hazard_detection) ==
    IF ~ai_detection.is_real_image
    THEN [status |-> "failed",
          message |-> <<"AI-generated image detected - only real photos are accepted">>]
    ELSE IF ~has_water_content(image)
    THEN [status |-> "failed",
          message |-> <<"No significant water content detected - please upload images with water/ocean scenes">>]
    ELSE IF ~has_hazard_indicators(image)
    THEN [status |-> "failed",
          message |-> <<"No hazard indicators detected - please upload images showing actual flood damage, destruction, or emergency situations">>]
    ELSE IF Truthy(selected_hazard_type)
            /\ ~image_is_hazard_type_compatible(selected_hazard_type,
                                                hazard_detection.detected_type)
    THEN [status |-> "failed",
          message |-> <<"Image content does not match selected hazard type. Detected: ">>
                          \o hazard_detection.detected_type]
    ELSE IF hazard_detection.confidence < D(4000)
    THEN [status |-> "failed",
          message |-> <<"Low confidence in hazard detection - please check image quality">>]
    ELSE [status |-> "verified", message |-> <<"Image verified successfully">>]

\* verify_image whose decision skips the confidence gate of line 706
verify_image_NoConfidenceGate(upload, t) ==
    IF ~upload.image.decoded
    THEN [status |-> "error", message |-> <<"Failed to process image">>, confidence |-> 0]
    ELSE LET ai_detection == detect_ai_generated_image(upload.image, upload.filename)
             hazard_detection == detect_hazard_type(upload.image, upload.filename,
                                                    upload.description)
             decision == ImageDecision(upload.image, upload.selected_hazard_type,
                                       ai_detection,
                                       [hazard_detection EXCEPT !.confidence = Unit])
         IN  [status |-> decision.status,
              message |-> decision.message,
              confidence |-> (hazard_detection.confidence + ai_detection.confidence) \div 2,
              hazard_detection |-> hazard_detection,
              ai_detection |-> ai_detection,
              timestamp |-> t]

\* AIVerificationService.verify_image; upload.image.decoded is whether
\* preprocess_image obtains a frame from the bytes
verify_image(upload, t) ==
    IF ~upload.image.decoded
    THEN [status |-> "error", message |-> <<"Failed to process image">>, confidence |-> 0]
    ELSE LET ai_detection == detect_ai_generated_image(upload.image, upload.filename)
             hazard_detection == detect_hazard_type(upload.image, upload.filename,
                                                    upload.description)
             decision == ImageDecision(upload.image, upload.selected_hazard_type,
                                       ai_detection, hazard_detection)
         IN  [status |-> decision.status,
              message |-> decision.message,
              confidence |-> (hazard_detection.confidence + ai_detection.confidence) \div 2,
              hazard_detection |-> hazard_detection,
              ai_detection |-> ai_detection,
              timestamp |-> t]

\* verify_image_endpoint that answers 'failed' where the verdict lacks the
\* keys it formats
verify_image_endpoint_NoCatch(result, upload, t) ==
    [status |-> IF "ai_detection" \in DOMAIN result THEN result.status ELSE "failed",
     confidence |-> result.confidence,
     message |-> result.message]

\* verify_image_endpoint, lines 817-859: formats the verdict of verify_image
\* for the frontend; a verdict without 'ai_detection' (the two 'error'
\* verdicts) raises KeyError at line 830, which the except turns into the
\* endpoint's own 'error' reply
verify_image_endpoint(result, upload, t) ==
    IF "ai_detection" \notin DOMAIN result
    THEN [status |-> "error",
          checks |-> <<>>,
          aiDetection |-> <<>>,
          hazardMatching |-> <<>>,
          confidence |-> 0,
          message |-> <<"Verification service error: ", "'ai_detection'">>,
          timestamp |-> t]
    ELSE [status |-> result.status,
          checks |->
              [isImage |-> TRUE,
               isRealImage |-> result.ai_detection.is_real_image,
               hazardTypeMatch |-> result.status = "verified",
               scenarioMatch |-> result.status = "verified",
               locationValid |-> TRUE,
               contentAnalysis |-> result.confidence > D(7000),
               hazardRelevant |-> result.hazard_detection.confidence > D(5000)],
          aiDetection |-> result.ai_detection,
          hazardMatching |->
              [matchesSelectedType |->
                   IF Truthy(upload.selected_hazard_type)
                   THEN result.hazard_detection.detected_type = upload.selected_hazard_type
                   ELSE TRUE,
               detectedHazardTypes |-> <<result.hazard_detection.detected_type>>,
               confidence |-> result.hazard_detection.confidence,
               scenarioMatch |-> result.status = "verified"],
          confidence |-> result.confidence,
          message |-> result.message,
          timestamp |-> result.timestamp]

-----------------------------------------------------------------------------
(* Image inputs.                                                           *)

BaseImage ==
    [decoded |-> TRUE, raises |-> {},
     laplacian_variance |-> 60, mean_saturation |-> D(6000), saturation_std |-> D(2000),
     water_percentage |-> 0,
     horizontal_edges |-> 30000, vertical_edges |-> 5000, diagonal_edges |-> 15000,
     total_edges |-> 2000, texture_variance |-> 1500,
     has_water_contours |-> FALSE, coherent_water_ratio |-> 0,
     orange_pixels |-> 0, red_pixels |-> 0, yellow_pixels |-> 0,
     edge_density |-> D(300), irregular_shapes |-> 0,
     vehicle_like_objects |-> 0, bright_pixels |-> 0]

\* bytes that imdecode rejects
UndecodableImage == [BaseImage EXCEPT !.decoded = FALSE]

\* every pixel black: no gradient, so every pixel has direction 0
BlackImage ==
    [BaseImage EXCEPT !.laplacian_variance = 0, !.mean_saturation = 0,
                      !.saturation_std = 0,
                      !.horizontal_edges = 50176, !.vertical_edges = 0,
                      !.diagonal_edges = 0, !.total_edges = 0,
                      !.texture_variance = 0, !.edge_density = 0]

\* open water, nothing else
CalmSea ==
    [BaseImage EXCEPT !.water_percentage = D(8000), !.has_water_contours = TRUE,
                      !.coherent_water_ratio = D(7000)]

\* water, wreckage, emergency colours, vehicles
FloodScene ==
    [BaseImage EXCEPT !.laplacian_variance = 600, !.mean_saturation = D(4000),
                      !.water_percentage = D(6000), !.has_water_contours = TRUE,
                      !.coherent_water_ratio = D(4000), !.texture_variance = 2500,
                      !.orange_pixels = 1500, !.red_pixels = 1200,
                      !.edge_density = D(1500), !.irregular_shapes = 8,
                      !.vehicle_like_objects = 1, !.bright_pixels = 3000]

\* the same wreckage on dry land
DryRubble == [FloodScene EXCEPT !.water_percentage = D(500)]

\* water-coloured noise: half the pixels, no region of 5 percent
Speckle ==
    [BaseImage EXCEPT !.water_percentage = D(5000), !.has_water_contours = TRUE,
                      !.coherent_water_ratio = D(100)]

\* water and hazard signs on a frame too smooth for any content rule
QuietHarbour ==
    [CalmSea EXCEPT !.texture_variance = 2500,
                    !.orange_pixels = 1500, !.red_pixels = 1200, !.yellow_pixels = 1100,
                    !.edge_density = D(1500)]

\* debris texture and the three emergency colours, nothing else
ColourTie ==
    [CalmSea EXCEPT !.texture_variance = 2500,
                    !.orange_pixels = 1500, !.red_pixels = 1200, !.yellow_pixels = 1100]

\* very sharp and flat in saturation
Oversharp ==
    [FloodScene EXCEPT !.laplacian_variance = 2500, !.saturation_std = D(300)]

\* a flood scene on which compute_image_metrics raises
BrokenMetrics == [FloodScene EXCEPT !.raises = {"metrics"}]

\* a flood scene on which analyze_water_content raises
BrokenWater == [FloodScene EXCEPT !.raises = {"water"}]

\* a flood scene on which the three detectors of has_hazard_indicators raise
BrokenDetectors == [FloodScene EXCEPT !.raises = {"colors", "structure", "equipment"}]

Images ==
    {UndecodableImage, BlackImage, CalmSea, FloodScene, DryRubble, Speckle,
     QuietHarbour, ColourTie, Oversharp, BrokenMetrics, BrokenWater, BrokenDetectors}

photo_jpg == <<"p", "h", "o", "t", "o", ".", "j", "p", "g">>

flood_photo_jpg ==
    <<"f", "l", "o", "o", "d", "_", "p", "h", "o", "t", "o", ".", "j", "p", "g">>

DALLE_wave_png == <<"D", "A", "L", "L", "E", "_", "w", "a", "v", "e", ".", "p", "n", "g">>

ImageUploads ==
    { [image |-> i, selected_hazard_type |-> s, description |-> d, filename |-> f] :
        i \in Images,
        s \in {NoneVal, <<>>, flooding, wildlife, other},
        d \in {<<>>, NoneVal},
        f \in {photo_jpg, flood_photo_jpg, DALLE_wave_png} }

-----------------------------------------------------------------------------
(* The image service has no state of its own: each request is answered     *)
(* from its arguments.                                                     *)

\* number of verify_image calls explored
MaxImageCalls == 1

VerifyImage(upload) ==
    /\ img_call' = [n |-> img_call.n + 1, upload |-> upload]
    /\ \E result \in {verify_image(upload, img_call.n)} :
           /\ img_ret' = result
           /\ img_reply' = verify_image_endpoint(result, upload, img_call.n)
    /\ UNCHANGED <<video_vars, function_vars, thread_vars>>

NextImage ==
    \E upload \in ImageUploads :
        /\ img_call.n < MaxImageCalls
        /\ VerifyImage(upload)

SpecImage == Init /\ [][NextImage]_vars

-----------------------------------------------------------------------------
(* Both services in one process: a request goes to one or the other.       *)

\* number of requests explored when both services are served
MaxRequests == 1

NextMedia ==
    \/ \E upload \in Uploads :
           /\ call.n + img_call.n < MaxRequests
           /\ VerifyVideo(upload)
    \/ \E upload \in ImageUploads :
           /\ call.n + img_call.n < MaxRequests
           /\ VerifyImage(upload)

SpecMedia == Init /\ [][NextMedia]_vars

-----------------------------------------------------------------------------
(* Requests that run verify_video at the same time on the one service      *)
(* instance.  Nothing guards the cache, so each of its operations is a     *)
(* step of its own: the membership test of line 421, the size test of      *)
(* line 555, picking the oldest key at line 557, the delete of line 558    *)
(* and the insert of line 560.  Everything else a call does works on its   *)
(* own data and is one step.                                               *)

ThreadUploads ==
    { FillerUpload(1),
      Upload(StormVideo, NoneVal, <<>>, clip_mp4, FALSE, FALSE),
      Upload(NotAVideo, NoneVal, <<>>, storm_flood_warning_mp4, TRUE, FALSE),
      Upload(NotAVideo, NoneVal, <<>>, storm_flood_warning_mp4, FALSE, FALSE) }

InitThreads == InitFull

\* the finally clause of lines 564-567 and the return
Return(t, verdict) ==
    /\ threads' = [threads EXCEPT ![t] = [@ EXCEPT !.pc = "returned", !.ret = verdict]]
    /\ tmp_files' = tmp_files \ {threads[t].temp_path}

\* a request enters verify_video: lines 415-419
Request(t, upload) ==
    /\ threads[t].pc = "idle"
    /\ threads' = [threads EXCEPT ![t] =
                      [pc |-> "membership_test",
                       upload |-> upload,
                       started |-> now,
                       cache_key |-> cache_key(upload.video, upload.selected_hazard_type,
                                               upload.filename),
                       temp_path |-> 0,
                       result |-> NoVerdict,
                       oldest_key |-> NoneVal,
                       ret |-> NoVerdict]]
    /\ now' = now + 1
    /\ UNCHANGED <<verification_cache, tmp_files>>
    /\ UNCHANGED <<call, ret, image_vars, function_vars>>

\* "if cache_key in self.verification_cache", lines 421-426
MembershipTest(t) ==
    /\ threads[t].pc = "membership_test"
    /\ IF CacheHas(verification_cache, threads[t].cache_key)
       THEN Return(t, CacheHit(verification_cache, threads[t].cache_key, now).ret)
       ELSE /\ threads' = [threads EXCEPT ![t].pc = "analyse"]
            /\ UNCHANGED tmp_files
    /\ UNCHANGED <<verification_cache, now>>
    /\ UNCHANGED <<call, ret, image_vars, function_vars>>

\* lines 428-552: the temporary file and the analysis, up to the verdict
\* that is about to be cached, or to a return that caches nothing
Analyse(t) ==
    /\ threads[t].pc = "analyse"
    /\ \E r \in {verify_video(<<>>, {}, threads[t].started, threads[t].upload)} :
          IF r.stored
          THEN /\ threads' = [threads EXCEPT ![t] =
                                 [@ EXCEPT !.pc = "size_test",
                                           !.temp_path = r.temp_path,
                                           !.result = r.ret]]
               /\ tmp_files' = tmp_files \cup {r.temp_path}
          ELSE /\ threads' = [threads EXCEPT ![t] =
                                 [@ EXCEPT !.pc = "returned",
                                           !.temp_path = r.temp_path,
                                           !.ret = r.ret]]
               /\ tmp_files' = tmp_files \cup r.files
    /\ UNCHANGED <<verification_cache, now>>
    /\ UNCHANGED <<call, ret, image_vars, function_vars>>

\* "if len(self.verification_cache) >= self.cache_max_size", line 555
SizeTest(t) ==
    /\ threads[t].pc = "size_test"
    /\ threads' = [threads EXCEPT ![t].pc =
                      IF Len(verification_cache) >= cache_max_size
                      THEN "pick_oldest" ELSE "insert"]
    /\ UNCHANGED <<verification_cache, tmp_files, now>>
    /\ UNCHANGED <<call, ret, image_vars, function_vars>>

\* "oldest_key = next(iter(self.verification_cache))", line 557; on an
\* empty dict next() raises StopIteration
PickOldest(t) ==
    /\ threads[t].pc = "pick_oldest"
    /\ IF verification_cache = <<>>
       THEN Return(t, ErrorVerdict("StopIteration", now))
       ELSE /\ threads' = [threads EXCEPT ![t] =
                              [@ EXCEPT !.pc = "delete",
                                        !.oldest_key = verification_cache[1].key]]
            /\ UNCHANGED tmp_files
    /\ UNCHANGED <<verification_cache, now>>
    /\ UNCHANGED <<call, ret, image_vars, function_vars>>

\* "del self.verification_cache[oldest_key]", line 558; a key that is no
\* longer there raises KeyError
Delete(t) ==
    /\ threads[t].pc = "delete"
    /\ IF CacheHas(verification_cache, threads[t].oldest_key)
       THEN /\ verification_cache' =
                   SelectSeq(verification_cache,
                             LAMBDA item : item.key # threads[t].oldest_key)
            /\ threads' = [threads EXCEPT ![t].pc = "insert"]
            /\ UNCHANGED tmp_files
       ELSE /\ Return(t, ErrorVerdict("KeyError", now))
            /\ UNCHANGED verification_cache
    /\ UNCHANGED now
    /\ UNCHANGED <<call, ret, image_vars, function_vars>>

\* "self.verification_cache[cache_key] = result.copy()" and the return,
\* lines 560-567
Insert(t) ==
    /\ threads[t].pc = "insert"
    /\ verification_cache' = CachePut(verification_cache, threads[t].cache_key,
                                      threads[t].result)
    /\ Return(t, threads[t].result)
    /\ UNCHANGED now
    /\ UNCHANGED <<call, ret, image_vars, function_vars>>

NextThreads ==
    \E t \in Threads :
        \/ \E upload \in ThreadUploads : Request(t, upload)
        \/ MembershipTest(t)
        \/ Analyse(t)
        \/ SizeTest(t)
        \/ PickOldest(t)
        \/ Delete(t)
        \/ Insert(t)

SpecThreads == InitThreads /\ [][NextThreads]_vars

-----------------------------------------------------------------------------
(* Direct calls of the methods that compute from their arguments alone:    *)
(* a call is drawn at the start and answered by one step.                  *)

\* the nine labels of the taxonomy
Labels == {hazard_types[i] : i \in 1..Len(hazard_types)}

CompatibleQueries ==
    { [n |-> 1, fn |-> "is_hazard_type_compatible", selected_type |-> a,
        detected_type |-> b] :
        a \in Labels, b \in Labels }

\* a description that names four categories of the keyword mapping
tsunami_wave_description == <<"t", "s", "u", "n", "a", "m", "i", " ", "w", "a", "v", "e">>

\* images on either side of each threshold of the content rules, lines 572-595
ClassifierImages ==
    { [BaseImage EXCEPT !.laplacian_variance = l, !.saturation_std = sd,
                        !.mean_saturation = m] :
        l \in {60, 90, 110, 130, 170, 200},
        sd \in {D(1000), D(2000)},
        m \in {D(3000), D(6000)} }

ImageQueries ==
    { [n |-> 1, fn |-> "detect_hazard_type", image |-> i, filename |-> f,
        description |-> d] :
        i \in ClassifierImages,
        f \in {photo_jpg, flood_photo_jpg, storm_flood_warning_mp4},
        d \in {<<>>, tsunami_wave_description} }

\* one or two sampled frames
\* a storm frame that also shows orange: all four hazard indicators
SurgeFrame == [StormFrame EXCEPT !.orange_percentage = D(600)]

ClassifierFrames ==
    LET Kinds == {LandFrame, SeaFrame, StormFrame, WreckFrame, SurgeFrame}
    IN  { <<a>> : a \in Kinds } \cup { <<a, b>> : a \in Kinds, b \in Kinds }

VideoQueries ==
    { [n |-> 1, fn |-> "detect_hazard_type_from_video", frames |-> fr, filename |-> f,
        description |-> d] :
        fr \in ClassifierFrames,
        f \in {clip_mp4, storm_flood_warning_mp4, Sea_WAVE_MP4},
        d \in {<<>>, tsunami_wave_description} }

\* images on either side of the trigger of each hazard heuristic,
\* lines 307-337, 360-378, 399-422 and 440-458
HazardQueries ==
    { [n |-> 1, fn |-> "has_hazard_indicators",
        image |-> [BaseImage EXCEPT !.laplacian_variance = l, !.texture_variance = tv,
                                    !.orange_pixels = o, !.red_pixels = r,
                                    !.yellow_pixels = y,
                                    !.edge_density = e, !.irregular_shapes = s,
                                    !.vehicle_like_objects = v, !.bright_pixels = b]] :
        l \in {60, 300, 600}, tv \in {1500, 2500},
        o \in {0, 1500}, r \in {0, 1500}, y \in {0, 1500},
        e \in {D(300), D(1500)}, s \in {0, 6},
        v \in {0, 1}, b \in {0, 2500} }

\* images over the measurements that analyze_water_content combines
WaterQueries ==
    { [n |-> 1, fn |-> "analyze_water_content",
        image |-> [BaseImage EXCEPT !.water_percentage = w, !.texture_variance = tv,
                                    !.total_edges = te, !.has_water_contours = c,
                                    !.coherent_water_ratio = r]] :
        w \in {0, D(2000), D(5000), Unit}, tv \in {0, 500, 3000},
        te \in {0, 2000, 50176}, c \in BOOLEAN, r \in {D(100), D(5000)} }

\* frames over the fractions of pixels inside each of the three colour
\* masks of lines 148-160.  The masks overlap: the grey mask (S <= 50,
\* 50 <= V <= 150) shares S = 50 with the blue mask and V = 150 with the
\* white mask, so a pixel can count twice; the blue and the white mask are
\* disjoint.  On a frame of uniform RGB (150, 150, 150) the white and the
\* grey fraction are both 1.
FrameQueries ==
    LET Fractions == {0, D(5000), Unit}
    IN  { [n |-> 1, fn |-> "analyze_frame_for_ocean_content",
            frame |-> [LandFrame EXCEPT !.blue_percentage = bw[1],
                                        !.white_percentage = bw[2],
                                        !.grey_percentage = g,
                                        !.horizontal_edge_density = h]] :
            bw \in { p \in Fractions \X Fractions : p[1] + p[2] <= Unit },
            g \in Fractions, h \in {0, D(2000)} }

\* images on either side of the thresholds of lines 493-503, under file
\* names with and without an AI pattern, empty and None
AiQueries ==
    { [n |-> 1, fn |-> "detect_ai_generated_image",
        image |-> [BaseImage EXCEPT !.laplacian_variance = l, !.saturation_std = sd],
        filename |-> f] :
        l \in {0, 60, 2500}, sd \in {0, D(2000)},
        f \in {photo_jpg, DALLE_wave_png, <<>>, NoneVal} }

Queries ==
    CompatibleQueries \cup ImageQueries \cup VideoQueries \cup HazardQueries
        \cup WaterQueries \cup FrameQueries \cup AiQueries

InitFunctions ==
    /\ verification_cache = <<>>
    /\ tmp_files = {}
    /\ now = 0
    /\ call = NoCall
    /\ ret = NoVerdict
    /\ img_call = NoCall
    /\ img_ret = NoVerdict
    /\ img_reply = NoVerdict
    /\ query \in Queries
    /\ answer = NoVerdict
    /\ threads = NoThreads

\* is_hazard_type_compatible of the image service and of the video service
\* on the same pair of labels
IsHazardTypeCompatible ==
    /\ query.fn = "is_hazard_type_compatible"
    /\ answer = NoVerdict
    /\ answer' = [status |-> "returned",
                  image |-> image_is_hazard_type_compatible(query.selected_type,
                                                            query.detected_type),
                  video |-> video_is_hazard_type_compatible(query.selected_type,
                                                            query.detected_type)]
    /\ UNCHANGED <<query, video_vars, image_vars, thread_vars>>

\* the candidate lists as they stand before the sort of line 628
image_candidates(image, filename, description) ==
    CHOOSE acc \in { DefaultOther(KeywordPass(1, text, ImageLadder(metrics))) :
                       text \in {text_content(filename, description)},
                       metrics \in {compute_image_metrics(image)} } : TRUE

\* the candidate lists as they stand before the sort of line 373
video_candidates(frames, filename, description) ==
    CHOOSE acc \in
        { DefaultOther(KeywordPass(1, text,
              VideoLadder(d.ocean_score, d.hazard_score))) :
            text \in {text_content(filename, description)},
            d \in {detect_hazard_type_from_video(frames, filename, description)} } : TRUE

\* AIVerificationService.detect_hazard_type on an image and its texts
DetectHazardType ==
    /\ query.fn = "detect_hazard_type"
    /\ answer = NoVerdict
    /\ answer' = [status |-> "returned",
                  result |-> detect_hazard_type(query.image, query.filename,
                                                query.description),
                  candidates |-> image_candidates(query.image, query.filename,
                                                  query.description)]
    /\ UNCHANGED <<query, video_vars, image_vars, thread_vars>>

\* VideoVerificationService.detect_hazard_type_from_video on sampled frames
DetectHazardTypeFromVideo ==
    /\ query.fn = "detect_hazard_type_from_video"
    /\ answer = NoVerdict
    /\ answer' = [status |-> "returned",
                  result |-> detect_hazard_type_from_video(query.frames, query.filename,
                                                           query.description),
                  candidates |-> video_candidates(query.frames, query.filename,
                                                  query.description)]
    /\ UNCHANGED <<query, video_vars, image_vars, thread_vars>>

\* AIVerificationService.has_hazard_indicators on an image, with the score
\* and the indicator list it logs at line 342
HasHazardIndicators ==
    /\ query.fn = "has_hazard_indicators"
    /\ answer = NoVerdict
    /\ answer' = [status |-> "returned",
                  result |-> has_hazard_indicators(query.image),
                  analysis |-> hazard_indicator_analysis(query.image)]
    /\ UNCHANGED <<query, video_vars, image_vars, thread_vars>>

\* AIVerificationService.analyze_water_content on an image
AnalyzeWaterContent ==
    /\ query.fn = "analyze_water_content"
    /\ answer = NoVerdict
    /\ answer' = [status |-> "returned",
                  result |-> analyze_water_content(query.image)]
    /\ UNCHANGED <<query, video_vars, image_vars, thread_vars>>

\* VideoVerificationService.analyze_frame_for_ocean_content on a frame
AnalyzeFrameForOceanContent ==
    /\ query.fn = "analyze_frame_for_ocean_content"
    /\ answer = NoVerdict
    /\ answer' = [status |-> "returned",
                  result |-> analyze_frame_for_ocean_content(query.frame)]
    /\ UNCHANGED <<query, video_vars, image_vars, thread_vars>>

\* AIVerificationService.detect_ai_generated_image on an image and a name
DetectAiGeneratedImage ==
    /\ query.fn = "detect_ai_generated_image"
    /\ answer = NoVerdict
    /\ answer' = [status |-> "returned",
                  result |-> detect_ai_generated_image(query.image, query.filename)]
    /\ UNCHANGED <<query, video_vars, image_vars, thread_vars>>

NextFunctions ==
    \/ IsHazardTypeCompatible
    \/ DetectAiGeneratedImage
    \/ AnalyzeWaterContent
    \/ AnalyzeFrameForOceanContent
    \/ HasHazardIndicators
    \/ DetectHazardType
    \/ DetectHazardTypeFromVideo

SpecFunctions == InitFunctions /\ [][NextFunctions]_vars

-----------------------------------------------------------------------------
(* Properties.                                                             *)

\* index of the first FALSE in a sequence of gates, 0 when all are TRUE
FirstFailing(gates) ==
    IF \A i \in 1..Len(gates) : gates[i] THEN 0
    ELSE CHOOSE i \in 1..Len(gates) : ~gates[i] /\ \A j \in 1..(i - 1) : gates[j]

\* a category hint that is None or the empty string counts as not given
HintGiven(selected_hazard_type) ==
    selected_hazard_type # NoneVal /\ Len(selected_hazard_type) > 0

ImageGateMessages ==
    <<"AI-generated image detected - only real photos are accepted",
      "No significant water content detected - please upload images with water/ocean scenes",
      "No hazard indicators detected - please upload images showing actual flood damage, destruction, or emergency situations",
      "Image content does not match selected hazard type. Detected: ",
      "Low confidence in hazard detection - please check image quality">>

\* the five gates of a decodable image upload, in the order of the claim
ImageGates(upload) ==
    LET hazard_detection == detect_hazard_type(upload.image, upload.filename,
                                               upload.description)
    IN  << detect_ai_generated_image(upload.image, upload.filename).is_real_image,
           analyze_water_content(upload.image).has_significant_water,
           has_hazard_indicators(upload.image),
           \/ ~HintGiven(upload.selected_hazard_type)
           \/ image_is_hazard_type_compatible(upload.selected_hazard_type,
                                              hazard_detection.detected_type),
           hazard_detection.confidence >= D(4000) >>

\* C1: for every decodable image, verify_image answers 'verified' exactly
\* when the five gates (real image, significant water, hazard indicators,
\* hint absent or compatible, hazard-type confidence >= 0.4) all pass, and
\* otherwise 'failed' with the message of the first gate that fails in
\* this order.
C1_ImageGateOrder ==
    (img_call.n > 0 /\ img_call.upload.image.decoded) =>
        LET first == FirstFailing(ImageGates(img_call.upload))
        IN  IF first = 0
            THEN img_ret.status = "verified"
            ELSE /\ img_ret.status = "failed"
                 /\ img_ret.message[1] = ImageGateMessages[first]

\* an image that fails the water gate and the hazard gate at once is
\* answered with the water message
C1_Witness ==
    /\ img_call.n > 0
    /\ img_call.upload.image.decoded
    /\ ImageGates(img_call.upload)[1]
    /\ ~ImageGates(img_call.upload)[2]
    /\ ~ImageGates(img_call.upload)[3]
    /\ img_ret.status = "failed"
    /\ img_ret.message[1] = ImageGateMessages[2]

VideoGateMessages ==
    <<"Insufficient ocean content detected - please upload videos showing water/ocean scenes",
      "No significant hazard indicators detected - please upload videos showing actual hazard conditions",
      "Video content does not match selected hazard type. Detected: ",
      "Low confidence in hazard detection - please check video quality and content">>

\* the last call ran the body of verify_video: no cache hit, file written
Analysed ==
    /\ call.n > 0
    /\ ~call.hit
    /\ ~call.upload.disk_full

\* number of extracted frames on which a per-frame flag is set
FramesWith(frames, Flag(_)) == Cardinality({i \in 1..Len(frames) : Flag(frames[i])})

OceanFlag(frame) == analyze_frame_for_ocean_content(frame).has_ocean_content

HazardFlag(frame) == analyze_hazard_indicators(frame).has_hazard_indicators

\* the four gates of the full video path; fractions are compared without
\* dividing: k / n < 0.1 iff 10 k < n, and k / n < 0.05 iff 20 k < n
VideoGates(upload, frames, hazard_detection) ==
    << ~(10 * FramesWith(frames, OceanFlag) < Len(frames)),
       ~(20 * FramesWith(frames, HazardFlag) < Len(frames)),
       \/ ~HintGiven(upload.selected_hazard_type)
       \/ video_is_hazard_type_compatible(upload.selected_hazard_type,
                                          hazard_detection.detected_type),
       ~(hazard_detection.confidence < D(2000)) >>

\* the gates of the last call, from the frames its video yields and the
\* classifier's answer on them
LastVideoGates ==
    CHOOSE gates \in
        UNION { { VideoGates(call.upload, frames, hazard_detection) :
                    hazard_detection \in
                        {detect_hazard_type_from_video(frames, call.upload.filename,
                                                       call.upload.description)} } :
                frames \in {extract_key_frames(call.upload.video)} } : TRUE

\* C2: in full mode with at least one frame extracted, the status is
\* decided in the order ocean_percentage < 0.1, hazard_percentage < 0.05,
\* hint given and incompatible, classifier confidence < 0.2, else
\* 'verified'; the two percentages are the fractions of extracted frames
\* whose has_ocean_content / has_hazard_indicators flag is set.
C2_VideoGateOrder ==
    (Analysed /\ ~call.upload.quick_mode
        /\ extract_key_frames(call.upload.video) # <<>>) =>
        \E frames \in {extract_key_frames(call.upload.video)} :
        \E gates \in {LastVideoGates} :
        \E first \in {FirstFailing(gates)} :
            /\ ret.frame_analysis.ocean_percentage * Len(frames)
                   = FramesWith(frames, OceanFlag) * Unit
            /\ ret.frame_analysis.hazard_percentage * Len(frames)
                   = FramesWith(frames, HazardFlag) * Unit
            /\ IF first = 0
               THEN ret.status = "verified"
               ELSE /\ ret.status = "failed"
                    /\ ret.message[1] = VideoGateMessages[first]

\* a video without ocean frames and without hazard frames is answered with
\* the ocean message
C2_Witness ==
    /\ Analysed
    /\ ~call.upload.quick_mode
    /\ extract_key_frames(call.upload.video) # <<>>
    /\ ~LastVideoGates[1]
    /\ ~LastVideoGates[2]
    /\ ret.status = "failed"
    /\ ret.message[1] = VideoGateMessages[1]

\* the key under which the last call looked up the cache
LastKey(c) ==
    cache_key(c.upload.video, c.upload.selected_hazard_type, c.upload.filename)

\* C3: a verify_video call whose cache key is already in the cache returns
\* the stored verdict's status, message and confidence with cached = true
\* and a fresh timestamp, creates no temporary file, samples no frames and
\* leaves the cache as it was (keys, order, and the stored verdict with its
\* own 'cached' and 'timestamp').
C3_CacheHitReplay ==
    [][ (call'.n = call.n + 1 /\ CacheHas(verification_cache, LastKey(call'))) =>
            LET stored == CacheGet(verification_cache, LastKey(call'))
            IN  /\ ret'.status = stored.status
                /\ ret'.message = stored.message
                /\ ret'.confidence = stored.confidence
                /\ ret'.cached = TRUE
                /\ ret'.timestamp = now
                /\ ret'.timestamp > stored.timestamp
                /\ call'.temp_path = 0
                /\ tmp_files' = tmp_files
                /\ ~call'.sampled
                /\ verification_cache' = verification_cache ]_vars

\* a hit on a verdict of the full analysis: the reply says cached, the
\* stored verdict still says cached = False with its older timestamp
C3_Witness ==
    /\ call.n > 0
    /\ call.hit
    /\ ret.cached = TRUE
    /\ CacheHas(verification_cache, LastKey(call))
    /\ "cached" \in DOMAIN CacheGet(verification_cache, LastKey(call))
    /\ CacheGet(verification_cache, LastKey(call)).cached = FALSE
    /\ CacheGet(verification_cache, LastKey(call)).timestamp < ret.timestamp

\* C4: every verify_video call that misses the cache and returns a
\* verified / failed verdict has stored that verdict under its cache key
\* when it returns (full analysis, keyword fallback, quick mode).
C4_MissAlwaysStores ==
    (Analysed /\ ret.status \in {"verified", "failed"}) =>
        /\ CacheHas(verification_cache, LastKey(call))
        /\ CacheGet(verification_cache, LastKey(call)) = ret

\* C5: the verification cache never holds more than 50 entries.
C5_CacheBounded == Len(verification_cache) <= cache_max_size

FillerKey(i) ==
    cache_key(FillerUpload(i).video, FillerUpload(i).selected_hazard_type,
              FillerUpload(i).filename)

\* a quick-mode verdict was stored into a cache at capacity, which pushed
\* out the first upload
C5_Witness ==
    /\ call.n > 0
    /\ call.stored
    /\ call.upload.quick_mode
    /\ Len(verification_cache) = cache_max_size
    /\ ~CacheHas(verification_cache, FillerKey(1))

\* C6: storing a new verdict into a cache of 50 entries removes exactly
\* one entry, the one inserted earliest (stored verdicts carry the time of
\* the call that stored them); the others stay in their order and the new
\* one comes last; a cache hit does not change which entry is next to go.
C6_FifoEviction ==
    [][ /\ (Len(verification_cache) = cache_max_size
               /\ verification_cache' # verification_cache) =>
            /\ Len(verification_cache') = cache_max_size
            /\ SubSeq(verification_cache', 1, cache_max_size - 1)
                   = Tail(verification_cache)
            /\ verification_cache'[cache_max_size].key = LastKey(call')
            /\ ~CacheHas(verification_cache', verification_cache[1].key)
            /\ \A i \in 1..Len(verification_cache) :
                   verification_cache[1].value.timestamp
                       <= verification_cache[i].value.timestamp
        /\ (call'.n = call.n + 1 /\ verification_cache # <<>>
               /\ CacheHas(verification_cache, LastKey(call'))) =>
            Head(verification_cache') = Head(verification_cache) ]_vars

\* two verdicts were stored at capacity: the first two uploads are gone and
\* the third is the next to go
C6_Witness ==
    /\ call.n > 0
    /\ call.stored
    /\ Len(verification_cache) = cache_max_size
    /\ verification_cache[1].key = FillerKey(3)

\* C7: a temporary file that a verify_video call created no longer exists
\* when the call returns, whatever the exit path; a cache hit creates none.
C7_TempFileRemoved ==
    call.n > 0 =>
        /\ call.temp_path # 0 => call.temp_path \notin tmp_files
        /\ call.hit => call.temp_path = 0

StringArgs(upload) ==
    upload.description # NoneVal /\ upload.filename # NoneVal

\* duration < 1s, duration > 300s, with duration = 0 when fps is 0
Below1s(video) == IF video.fps > 0 THEN video.frame_count < video.fps ELSE TRUE

Above300s(video) ==
    IF video.fps > 0 THEN video.frame_count > 300 * video.fps ELSE FALSE

\* number of the keywords occurring in a text, character by character
KeywordHits(keywords, text) ==
    Cardinality({k \in 1..Len(keywords) :
        \E i \in 0..(Len(text) - Len(keywords[k])) :
            \A j \in 1..Len(keywords[k]) : text[i + j] = keywords[k][j]})

\* r is the verdict of keyword scoring alone on the lower-cased
\* "filename description": scores are hits / 8, status 'verified' with
\* fallback = true when a score exceeds 0.1, else 'failed'
KeywordVerdict(upload, r) ==
    \E text \in {Lower(upload.filename \o <<" ">> \o upload.description)} :
    \E ocean_hits \in {KeywordHits(ocean_keywords, text)} :
    \E hazard_hits \in {KeywordHits(hazard_keywords, text)} :
        IF 10 * ocean_hits > 8 \/ 10 * hazard_hits > 8
        THEN /\ r.status = "verified"
             /\ "fallback" \in DOMAIN r
             /\ r.fallback = TRUE
             /\ 8 * r.hazard_detection.ocean_score = ocean_hits * Unit
             /\ 8 * r.hazard_detection.hazard_score = hazard_hits * Unit
        ELSE r.status = "failed"

\* C8 as claimed: whenever the video cannot be decoded or its duration is
\* outside [1s, 300s], in full mode and in quick mode, the verdict is that
\* of keyword scoring alone.
C8_KeywordFallbackBothModes ==
    (Analysed /\ StringArgs(call.upload)
        /\ (\/ ~call.upload.video.opened
            \/ Below1s(call.upload.video)
            \/ Above300s(call.upload.video))) =>
        KeywordVerdict(call.upload, ret)

\* C8 amended: that holds in full mode, and in quick mode when the video
\* cannot be opened; quick mode answers a video that opens with a duration
\* outside [1s, 300s] by 'failed' ('Video too short' / 'Video too long')
\* whatever the keywords.
C8_KeywordFallbackAmended ==
    (Analysed /\ StringArgs(call.upload)
        /\ (\/ ~call.upload.video.opened
            \/ Below1s(call.upload.video)
            \/ Above300s(call.upload.video))) =>
        IF ~call.upload.quick_mode \/ ~call.upload.video.opened
        THEN KeywordVerdict(call.upload, ret)
        ELSE /\ ret.status = "failed"
             /\ ret.message = IF Below1s(call.upload.video)
                              THEN <<"Video too short">> ELSE <<"Video too long">>

\* full mode, a video of 301 seconds with keywords in its name: verified by
\* the keyword fallback
C8_Witness ==
    /\ Analysed
    /\ ~call.upload.quick_mode
    /\ call.upload.video.opened
    /\ Above300s(call.upload.video)
    /\ ret.status = "verified"
    /\ ret.fallback = TRUE
    /\ ret.hazard_detection.hazard_score > D(1000)

\* C9 as claimed: on a decodable video shorter than 1 second verify_video
\* returns 'failed' with a message saying the video is too short, whatever
\* the filename, description and quick_mode.
C9_TooShortAlwaysFails ==
    (Analysed /\ StringArgs(call.upload)
        /\ call.upload.video.opened /\ Below1s(call.upload.video)) =>
        /\ ret.status = "failed"
        /\ ret.message = <<"Video too short">>

\* C9 amended: that is what quick mode returns (also when the description
\* is None); in full mode the video is answered by the keyword fallback,
\* and never with a message about its length.
C9_TooShortAmended ==
    (Analysed /\ call.upload.video.opened /\ Below1s(call.upload.video)) =>
        IF call.upload.quick_mode
        THEN /\ ret.status = "failed"
             /\ ret.message = <<"Video too short">>
        ELSE StringArgs(call.upload) =>
                /\ KeywordVerdict(call.upload, ret)
                /\ ret.message \in
                       { <<"Video verified (keyword-based fallback)">>,
                         <<"Could not extract frames from video and no ocean hazard keywords found">> }

\* quick mode, half a second of video named after a storm and a flood:
\* failed, too short
C9_Witness ==
    /\ Analysed
    /\ call.upload.quick_mode
    /\ call.upload.video.opened
    /\ Below1s(call.upload.video)
    /\ call.upload.filename = storm_flood_warning_mp4
    /\ ret.status = "failed"
    /\ ret.message = <<"Video too short">>

\* the upload of the scenario: no video container, the file name
\* storm_flood_warning.mp4, an empty description
StormFloodScenario ==
    /\ Analysed
    /\ ~call.upload.video.opened
    /\ call.upload.filename = storm_flood_warning_mp4
    /\ call.upload.description = <<>>

\* C10 as claimed: the scenario is verified by the keyword fallback with
\* ocean_score > 0.1 and hazard_score > 0.1.
C10_BothScoresAboveTenth ==
    StormFloodScenario =>
        /\ ret.status = "verified"
        /\ ret.fallback = TRUE
        /\ ret.hazard_detection.ocean_score > D(1000)
        /\ ret.hazard_detection.hazard_score > D(1000)

\* C10 amended: the scenario is verified by the keyword fallback with
\* hazard_score = 3/8 (storm, flood, warning) and ocean_score = 0.
C10_HazardScoreOnly ==
    StormFloodScenario =>
        /\ ret.status = "verified"
        /\ ret.fallback = TRUE
        /\ 8 * ret.hazard_detection.hazard_score = 3 * Unit
        /\ ret.hazard_detection.ocean_score = 0

\* the scenario in full mode
C10_Witness ==
    /\ StormFloodScenario
    /\ ~call.upload.quick_mode
    /\ ret.status = "verified"
    /\ ret.message = <<"Video verified (keyword-based fallback)">>

\* C11: verify_image answers a buffer that cannot be decoded with status
\* 'error' and confidence 0; every 'error' verdict of verify_image has
\* confidence 0, and verify_image_endpoint answers those requests with
\* status 'error' and confidence 0 as well, never 'verified' or 'failed'.
C11_ImageErrorVerdict ==
    img_call.n > 0 =>
        /\ ~img_call.upload.image.decoded =>
               /\ img_ret.status = "error"
               /\ img_ret.message = <<"Failed to process image">>
        /\ img_ret.status = "error" =>
               /\ img_ret.confidence = 0
               /\ img_reply.status = "error"
               /\ img_reply.confidence = 0

\* an undecodable buffer with a category hint and a telling file name
C11_Witness ==
    /\ img_call.n > 0
    /\ ~img_call.upload.image.decoded
    /\ img_call.upload.selected_hazard_type = flooding
    /\ img_call.upload.filename = flood_photo_jpg
    /\ img_ret.status = "error"
    /\ img_reply.status = "error"
    /\ img_reply.message[1] = "Verification service error: "

\* C12: when a sub-analyzer of the image pipeline fails, verify_image does
\* not answer 'error', and the failure is replaced by a default under which
\* the analyzer's own gate is not passed and its scores are zero: no real
\* image from a failed AI detection, no water from a failed water analysis,
\* no hazard indicators from a failed indicator analysis, confidence 0
\* from a failed classification.
C12_FailClosedDefaults ==
    (img_call.n > 0 /\ img_call.upload.image.decoded) =>
        /\ img_ret.status \in {"verified", "failed"}
        /\ "water" \in img_call.upload.image.raises =>
               /\ ~has_water_content(img_call.upload.image)
               /\ analyze_water_content(img_call.upload.image).water_confidence = 0
        /\ "metrics" \in img_call.upload.image.raises =>
               /\ ~has_hazard_indicators(img_call.upload.image)
               /\ ~img_ret.ai_detection.is_real_image
               /\ img_ret.ai_detection.confidence = 0
        /\ ("metrics" \in img_call.upload.image.raises
               \/ img_call.upload.description = NoneVal) =>
               img_ret.hazard_detection.confidence = 0

Answered(fn) == query.n # 0 /\ query.fn = fn /\ answer.status = "returned"

\* C13: is_hazard_type_compatible is symmetric on both paths: for every
\* pair (a, b) of the nine labels the answer on (a, b) is the answer on
\* (b, a), in the image service and in the video service.
C13_CompatibleSymmetric ==
    Answered("is_hazard_type_compatible") =>
        /\ answer.image = image_is_hazard_type_compatible(query.detected_type,
                                                          query.selected_type)
        /\ answer.video = video_is_hazard_type_compatible(query.detected_type,
                                                          query.selected_type)

\* erosion against debris: two different labels, compatible on both paths
C13_Witness ==
    /\ Answered("is_hazard_type_compatible")
    /\ query.selected_type = erosion
    /\ query.detected_type = debris
    /\ answer.image
    /\ answer.video

\* C14: the image check is strictly more permissive than the video check:
\* on every pair of labels video-compatible implies image-compatible, some
\* pair is image-compatible without being video-compatible, and every
\* label is compatible with itself on both paths.
C14_ImageMorePermissive ==
    Answered("is_hazard_type_compatible") =>
        /\ answer.video => answer.image
        /\ query.selected_type = query.detected_type => (answer.video /\ answer.image)
        /\ \E a \in Labels : \E b \in Labels :
               /\ image_is_hazard_type_compatible(a, b)
               /\ ~video_is_hazard_type_compatible(a, b)

\* flooding against pollution: accepted for an image, refused for a video
C14_Witness ==
    /\ Answered("is_hazard_type_compatible")
    /\ query.selected_type = flooding
    /\ query.detected_type = pollution
    /\ answer.image
    /\ ~answer.video

\* the last video call ran the full analysis on at least one frame
FullPath ==
    /\ Analysed
    /\ ~call.upload.quick_mode
    /\ extract_key_frames(call.upload.video) # <<>>

\* sum of a per-frame score over the extracted frames
FrameSum(frames, Score(_)) == SumSeq([i \in 1..Len(frames) |-> Score(frames[i])])

WaterConfidence(frame) == analyze_frame_for_ocean_content(frame).water_confidence

HazardScore(frame) == analyze_hazard_indicators(frame).hazard_score

\* C15: the overall confidence of a verify_image verdict is (hazard-type
\* confidence + AI-detection confidence) / 2, that of a full-path
\* verify_video verdict is (classifier confidence + mean ocean score + mean
\* hazard score) / 3, for 'failed' verdicts as for 'verified' ones, and it
\* lies in [0, 1].
C15_OverallConfidence ==
    /\ (img_call.n > 0 /\ img_call.upload.image.decoded) =>
           /\ img_ret.status \in {"verified", "failed"}
           /\ 2 * img_ret.confidence
                  = img_ret.hazard_detection.confidence + img_ret.ai_detection.confidence
           /\ img_ret.confidence >= 0
           /\ img_ret.confidence <= Unit
    /\ FullPath =>
           \E frames \in {extract_key_frames(call.upload.video)} :
               /\ ret.status \in {"verified", "failed"}
               /\ 3 * ret.confidence
                      = ret.hazard_detection.confidence + ret.hazard_detection.ocean_score
                            + ret.hazard_detection.hazard_score
               /\ (call.upload.description # NoneVal) =>
                      /\ Len(frames) * ret.hazard_detection.ocean_score
                             = FrameSum(frames, WaterConfidence)
                      /\ Len(frames) * ret.hazard_detection.hazard_score
                             = FrameSum(frames, HazardScore)
               /\ ret.confidence >= 0
               /\ ret.confidence <= Unit

\* a 'failed' video verdict whose three scores differ, so that the
\* three-way mean is none of the two-way means
C15_Witness ==
    /\ FullPath
    /\ ret.status = "failed"
    /\ ret.hazard_detection.hazard_score > 0
    /\ ret.hazard_detection.ocean_score > ret.hazard_detection.hazard_score
    /\ ret.hazard_detection.confidence # ret.hazard_detection.ocean_score
    /\ 2 * ret.confidence
           # ret.hazard_detection.confidence + ret.hazard_detection.ocean_score

-----------------------------------------------------------------------------
(* C16: when two or more verify_video calls interleave on the one service  *)
(* instance, step by step through the cache's operations, the cache never  *)
(* holds more than cache_max_size entries.                                 *)
C16_CacheBoundedWhenInterleaved ==
    (\E t \in Threads : threads[t].pc # "idle")
        => Len(verification_cache) <= cache_max_size

-----------------------------------------------------------------------------
\* the statuses a verdict can carry
Statuses == {"verified", "failed", "error"}

(* C17: every verify_image call and every verify_video call returns one    *)
(* verdict whose status is 'verified', 'failed' or 'error', whatever the   *)
(* bytes, the hints and the mode; an exception raised on the way is        *)
(* reported in an 'error' verdict, and a call writes at most one temporary *)
(* file (no stage runs twice).                                             *)
C17_OneVerdictPerCall ==
    /\ call.n > 0 =>
          /\ ret.status \in Statuses
          /\ {"message", "confidence"} \subseteq DOMAIN ret
    /\ img_call.n > 0 =>
          /\ img_ret.status \in Statuses
          /\ {"message", "confidence"} \subseteq DOMAIN img_ret
    /\ Cardinality(tmp_files) <= call.n

\* the write of the temporary file raised, and the call answered 'error'
C17_Witness ==
    /\ call.n = 1
    /\ call.upload.disk_full
    /\ ret.status = "error"
    /\ ret.message = <<"Verification failed: ", "OSError">>

-----------------------------------------------------------------------------
(* C18: verify_image on an all-black 224x224 image whose file name holds   *)
(* no AI keyword passes the AI gate as a real image, fails the water gate, *)
(* and answers 'failed' with the message about water content.              *)
C18_BlackImageFailsOnWater ==
    ( /\ img_call.n > 0
      /\ img_call.upload.image = BlackImage
      /\ ~ ( Truthy(img_call.upload.filename)
             /\ AnyIn(ai_patterns, Lower(img_call.upload.filename)) ) )
    => /\ img_ret.ai_detection.is_real_image
       /\ ~has_water_content(img_call.upload.image)
       /\ img_ret.status = "failed"
       /\ img_ret.message =
              <<"No significant water content detected - please upload images with water/ocean scenes">>

-----------------------------------------------------------------------------
\* a classifier query that has been answered
Classified ==
    /\ query.fn \in {"detect_hazard_type", "detect_hazard_type_from_video"}
    /\ answer.status = "returned"

(* C19: the detected_type and the confidence that a classifier returns are *)
(* those of its top-ranked candidate, top_predictions[0], whatever content *)
(* rules fired and whatever keywords matched.                              *)
C19_DetectedIsTopPrediction ==
    Classified =>
        /\ answer.result.detected_type = answer.result.top_predictions[1].hazard_type
        /\ answer.result.confidence = answer.result.top_predictions[1].confidence

\* where a category stands in a list of predictions, 0 when it is absent
Rank(predictions, hazard_type) ==
    IF \E n \in 1..Len(predictions) : predictions[n].hazard_type = hazard_type
    THEN CHOOSE n \in 1..Len(predictions) : predictions[n].hazard_type = hazard_type
    ELSE 0

(* C20: of two candidates with equal confidence, the one inserted earlier  *)
(* stands before the other in top_predictions, and is the one kept when    *)
(* the cut to three entries falls between them.                            *)
C20_TiesKeepInsertionOrder ==
    Classified =>
        \A i, j \in 1..Len(answer.candidates.detected_types) :
            ( /\ i < j
              /\ answer.candidates.confidences[i] = answer.candidates.confidences[j]
              /\ Rank(answer.result.top_predictions,
                      answer.candidates.detected_types[j]) > 0 )
            => /\ Rank(answer.result.top_predictions,
                       answer.candidates.detected_types[i]) > 0
               /\ Rank(answer.result.top_predictions,
                       answer.candidates.detected_types[i])
                      < Rank(answer.result.top_predictions,
                             answer.candidates.detected_types[j])

-----------------------------------------------------------------------------
(* C21: for every candidate list a classifier produces, top_predictions is *)
(* in order of non-increasing confidence, has min(3, number of candidates) *)
(* entries, and no candidate left out has a higher confidence than an      *)
(* entry.                                                                  *)
C21_TopPredictionsRanked ==
    Classified =>
        \E top \in {answer.result.top_predictions},
           types \in {answer.candidates.detected_types},
           confidences \in {answer.candidates.confidences} :
            /\ Len(top) = Min(3, Len(types))
            /\ \A n \in 1..(Len(top) - 1) : top[n].confidence >= top[n + 1].confidence
            /\ \A n \in 1..Len(top) :
                   \E i \in 1..Len(types) :
                       /\ types[i] = top[n].hazard_type
                       /\ confidences[i] = top[n].confidence
            /\ \A m, n \in 1..Len(top) : m # n => top[m].hazard_type # top[n].hazard_type
            /\ \A i \in 1..Len(types) :
                   Rank(top, types[i]) = 0 =>
                       \A n \in 1..Len(top) : confidences[i] <= top[n].confidence

\* five content candidates with confidences 0.7, 0.6, 0.5, 0.8, 0.7: the
\* predictions are tsunami at 0.8 and the two candidates at 0.7
C21_Witness ==
    /\ Classified
    /\ query.fn = "detect_hazard_type"
    /\ answer.candidates.confidences = <<D(7000), D(6000), D(5000), D(8000), D(7000)>>
    /\ Len(answer.result.top_predictions) = 3
    /\ answer.result.top_predictions[1] = [hazard_type |-> tsunami, confidence |-> D(8000)]
    /\ answer.result.top_predictions[3].confidence = D(7000)

-----------------------------------------------------------------------------
\* the trigger of each heuristic of the hazard-indicator analysis with its
\* weight, in the order of the code
TriggeredHeuristics(image) ==
    << [fires |-> image.laplacian_variance > 200, weight |-> 3000],
       [fires |-> image.laplacian_variance > 500, weight |-> 2000],
       [fires |-> image.texture_variance > 2000, weight |-> 2000],
       [fires |-> image.orange_pixels > 1000, weight |-> 1500],
       [fires |-> image.red_pixels > 1000, weight |-> 1500],
       [fires |-> image.yellow_pixels > 1000, weight |-> 1000],
       [fires |-> image.edge_density > D(1000), weight |-> 2000],
       [fires |-> image.irregular_shapes > 5, weight |-> 1500],
       [fires |-> image.vehicle_like_objects > 0, weight |-> 1000],
       [fires |-> image.bright_pixels > 2000, weight |-> 1000] >>

(* C22: in the image hazard-indicator analysis every heuristic whose       *)
(* trigger holds adds its weight to hazard_score and appends its tag, so   *)
(* the number of indicators equals the number of triggered heuristics,     *)
(* also when a heuristic is the only one triggered in its sub-analysis.    *)
C22_EveryTriggerTagged ==
    Answered("has_hazard_indicators") =>
        \E h \in {TriggeredHeuristics(query.image)} :
            /\ answer.analysis.hazard_score[1] =
                   SumSeq([i \in 1..Len(h) |-> IF h[i].fires THEN h[i].weight ELSE 0])
            /\ Len(answer.analysis.indicators_found) =
                   CountTrue([i \in 1..Len(h) |-> h[i].fires])

-----------------------------------------------------------------------------
(* C23: on the image path and on the video path the reported water         *)
(* percentage and the reported water confidence lie in [0, 1], also on     *)
(* frames whose pixels satisfy more than one colour mask.                  *)
C23_WaterFractionsInUnitInterval ==
    /\ Answered("analyze_water_content") =>
          /\ answer.result.water_percentage \in 0..Unit
          /\ answer.result.water_confidence \in 0..Unit
    /\ Answered("analyze_frame_for_ocean_content") =>
          /\ answer.result.total_water_percentage \in 0..Unit
          /\ answer.result.water_confidence \in 0..Unit

-----------------------------------------------------------------------------
\* the weight that each rule of the AI detector contributes on a query, in
\* ten-thousandths
AiWeights(q) ==
    << IF q.image.laplacian_variance < 30 THEN 2000
       ELSE IF q.image.laplacian_variance > 2000 THEN 1500 ELSE 0,
       IF q.image.saturation_std < D(500) THEN 1000 ELSE 0,
       0,   \* 224 is no multiple of 64
       IF Truthy(q.filename) /\ AnyIn(ai_patterns, Lower(q.filename)) THEN 3000 ELSE 0 >>

(* C24: on valid metrics ai_score is the sum of the weights of the fired   *)
(* rules, confidence is min(0.9, 0.5 + ai_score) and lies in [0.5, 0.9],   *)
(* and is_real_image is true exactly when that sum is at most 0.3; in      *)
(* particular an image that fires only the over-smooth rule and the        *)
(* low-saturation rule, sum 0.3, is reported as real.                      *)
C24_AiScoreThreshold ==
    Answered("detect_ai_generated_image") =>
        \E sum \in {SumSeq(AiWeights(query))} :
            /\ answer.result.ai_score[1] = sum
            /\ answer.result.confidence = D(Min(9000, 5000 + sum))
            /\ answer.result.confidence \in D(5000)..D(9000)
            /\ answer.result.is_real_image <=> (sum <= 3000)

-----------------------------------------------------------------------------
-----------------------------------------------------------------------------
(* C26: in no interleaving of concurrent verify_video cache misses at a    *)
(* full cache does the eviction make a call fail: a call whose analysis    *)
(* produced a verdict to store returns that verdict, never an 'error'      *)
(* raised while picking or deleting the oldest key.                        *)
C26_EvictionNeverFails ==
    \A t \in Threads :
        (threads[t].pc = "returned" /\ threads[t].result # NoVerdict)
            => threads[t].ret = threads[t].result

-----------------------------------------------------------------------------
(* C27: a verdict with status 'error' is never stored in the verification  *)
(* cache, in quick mode or in full mode, so no later call with the same    *)
(* cache key is answered with a replayed error.                            *)
C27_ErrorsNotCached ==
    /\ \A i \in 1..Len(verification_cache) :
           verification_cache[i].value.status # "error"
    /\ (call.n > 0 /\ call.hit) => ret.status # "error"

-----------------------------------------------------------------------------
\* the message of the confidence gate of verify_video, line 533
LowConfidenceMessage ==
    <<"Low confidence in hazard detection - please check video quality and content">>

(* C28: every confidence that detect_hazard_type_from_video returns is at  *)
(* least 0.3, and at least 0.6 unless the result is the default 'other',   *)
(* so the gate 'confidence < 0.2' of verify_video never fires on it: with  *)
(* any category hint and any frame fractions the decision never carries    *)
(* the message 'Low confidence in hazard detection'.                       *)
C28_VideoConfidenceAboveGate ==
    Answered("detect_hazard_type_from_video") =>
        /\ answer.result.confidence >= D(3000)
        /\ answer.result.confidence < D(6000) =>
               /\ answer.result.detected_type = other
               /\ answer.candidates.detected_types = <<other>>
        /\ \A selected \in Labels \cup {NoneVal, <<>>}, fraction \in {0, D(500), D(1000), Unit} :
               VideoDecision(fraction, fraction, selected, answer.result).message
                   # LowConfidenceMessage

\* no rule and no keyword: 'other' at 0.3 passes the confidence gate
C28_Witness ==
    /\ Answered("detect_hazard_type_from_video")
    /\ answer.result.detected_type = other
    /\ answer.result.confidence = D(3000)
    /\ VideoDecision(Unit, Unit, NoneVal, answer.result).status = "verified"

-----------------------------------------------------------------------------
\* some keyword of the category occurs in the texts of the query
KeywordNamed(hazard_type, q) ==
    \E text \in {text_content(q.filename, q.description)} :
        \E k \in 1..Len(keyword_mapping) :
            /\ keyword_mapping[k].hazard_type = hazard_type
            /\ AnyIn(keyword_mapping[k].keywords, text)

\* mean scores on either side of every threshold of the ladder
LadderScores == { D(500 * k) : k \in 0..20 } \cup { D(500 * k) + 1 : k \in 0..19 }

-----------------------------------------------------------------------------
(* C30: verify_image never answers 'verified' with detected_type 'other':  *)
(* 'other' comes with confidence 0.3 only, below the gate at 0.4, and is   *)
(* compatible with no label but itself.  So an image submitted with the    *)
(* category hint 'other' is never verified, and every verified image has   *)
(* a hazard-type confidence of at least 0.5.                               *)
C30_OtherNeverVerified ==
    (img_call.n > 0 /\ "hazard_detection" \in DOMAIN img_ret) =>
        /\ img_ret.hazard_detection.detected_type = other
               => img_ret.hazard_detection.confidence = D(3000)
        /\ \A label \in Labels \ {other} :
               /\ ~image_is_hazard_type_compatible(other, label)
               /\ ~image_is_hazard_type_compatible(label, other)
        /\ img_ret.status = "verified" =>
               /\ img_ret.hazard_detection.detected_type # other
               /\ img_call.upload.selected_hazard_type # other
               /\ img_ret.hazard_detection.confidence >= D(5000)

\* water and hazard indicators but no content rule and no keyword: with the
\* hint 'other' the image passes the compatibility gate and fails on
\* confidence
C30_Witness ==
    /\ img_call.n > 0
    /\ img_call.upload.image = QuietHarbour
    /\ img_call.upload.selected_hazard_type = other
    /\ img_ret.hazard_detection.detected_type = other
    /\ img_ret.status = "failed"
    /\ img_ret.message =
           <<"Low confidence in hazard detection - please check image quality">>

====
